---- MODULE Spec2Model ----
(***************************************************************************)
(* Model of the CareCam asynchronous video worker:                         *)
(*   - worker/server.mjs         the push endpoint (HTTP adapter)          *)
(*   - worker/process-video-job.mjs   processVideoObject, the job processor*)
(*   - worker/analyzer-core.mjs  GlobalRateLimitController, callWithPolicy *)
(*                                                                         *)
(* Strings that the code splits on "/" are sequences of path segments:     *)
(* "a/b/" is <<"a", "b", "">> and the empty string is <<"">>.              *)
(***************************************************************************)
EXTENDS Integers, Sequences, FiniteSets, TLC

\* ------------------------------------------------------------------ bounds
NJobs == 1          \* deliveries of the storage event handled by the server
MaxFailures == 1    \* external calls (storage, fs, analyzer) that may throw
NWorkers == 3       \* pool workers sharing one rate controller
MaxRejections == 4  \* requests that reject or time out in one behaviour
MaxCallRejections == 6  \* the same, for the calls of a single worker
NDuplicates == 1    \* deliveries of the same event on top of the NJobs

\* the deliveries a behaviour may contain; the duplicates are absent from
\* the behaviours that are not about redelivery
Jobs == 1..(NJobs + NDuplicates)

\* ------------------------------------------------- process-video-job.mjs
CHILD_VIDEOS_PREFIX == <<"carecam", "child_videos">>
CHILD_VIDEO_SESSIONS_PREFIX == <<"carecam", "child_video_sessions">>
CHILD_VIDEO_ANALYSIS_PREFIX == <<"carecam", "child_video_analysis">>

\* The four artifacts of one job, by destination file name.
Artifacts == {"behaviors_final.json", "behaviors_validated.json",
              "behaviors_raw.json", "video_with_behaviors.mp4"}

\* Content of a session file: absent, not parseable as JSON, or a record.
NoFile == [kind |-> "absent"]
Malformed == [kind |-> "malformed"]
NoPath == <<>>
NoSession == [status |-> "none"]

\* Object names a storage notification may carry.
ObjectNames ==
  { <<"carecam", "child_videos", "icd-a", "1234-v.mp4">>,
    <<"carecam", "child_videos", "icd-a", "v.mp4">>,
    <<"carecam", "child_videos", "icd-a", "">>,
    <<"carecam", "child_videos", "v.mp4">>,
    <<"carecam", "other", "icd-a", "1234-v.mp4">>,
    <<"">> }

\* Event types of storage notifications, as sent and in other letter case.
EventTypes == {"OBJECT_FINALIZE", "object_finalize", "OBJECT_DELETE", ""}

Last(s) == s[Len(s)]

\* String(eventType).toUpperCase()
ToUpperCase(t) ==
  CASE t = "object_finalize" -> "OBJECT_FINALIZE"
    [] OTHER -> t

\* a finalize test that accepts every object notification
isFinalizeEvent_anyObjectEvent(t) == ToUpperCase(t) # ""

\* String(eventType).toUpperCase().includes("OBJECT_FINALIZE")
isFinalizeEvent(t) == ToUpperCase(t) = "OBJECT_FINALIZE"

\* objectName.startsWith("carecam/child_videos/")
StartsWithVideosPrefix(name) ==
  /\ Len(name) >= Len(CHILD_VIDEOS_PREFIX) + 1
  /\ SubSeq(name, 1, Len(CHILD_VIDEOS_PREFIX)) = CHILD_VIDEOS_PREFIX

\* objectName.endsWith("/"); Boolean(objectName) is name # <<"">>
EndsWithSlash(name) == Len(name) >= 2 /\ Last(name) = ""

shouldProcessObjectName(name) ==
  name # <<"">> /\ StartsWithVideosPrefix(name) /\ ~EndsWithSlash(name)

\* fileName.split("-")[0] when it matches /^\d+$/, else null ("")
parseUploadEpochFromObjectPath(name) ==
  CASE Last(name) = "1234-v.mp4" -> "1234"
    [] OTHER -> ""

\* Session record files under carecam/child_video_sessions/<icdKey>/
SessionPath(icdKey, file) == CHILD_VIDEO_SESSIONS_PREFIX \o <<icdKey, file>>

ArtifactPath(icdKey, epoch, a) == CHILD_VIDEO_ANALYSIS_PREFIX \o <<icdKey, epoch, a>>

\* A session record as the worker sees it.
\* reviewNotes is a field the worker never names (it is written by the
\* review UI); dominantCategory is "" while the record has none.
SessionRecord(st, ajp, pvp, err, failedAt, startedAt, sp) ==
  [status |-> st, analysisJsonPath |-> ajp, processedVideoPath |-> pvp,
   processingError |-> err, failedAt |-> failedAt,
   processingStartedAt |-> startedAt, storagePath |-> sp,
   reviewNotes |-> "", dominantCategory |-> ""]

IsRecord(c) == c # NoFile /\ c # Malformed


VideoName == <<"carecam", "child_videos", "icd-a", "1234-v.mp4">>
LegacyVideoName == <<"carecam", "child_videos", "icd-a", "v.mp4">>

\* uploadEpoch || String(Date.now())
safeUploadEpoch(name) ==
  IF parseUploadEpochFromObjectPath(name) # ""
    THEN parseUploadEpochFromObjectPath(name) ELSE "now"

finalJsonDestination(name) ==
  ArtifactPath(name[3], safeUploadEpoch(name), "behaviors_final.json")
outputVideoDestination(name) ==
  ArtifactPath(name[3], safeUploadEpoch(name), "video_with_behaviors.mp4")

\* `${uploadEpoch}.json`
EpochFile(epoch) == IF epoch = "1234" THEN "1234.json" ELSE "none.json"

\* bucket.getFiles lists object names in lexicographic order
ScanOrder == <<"1234.json", "legacy.json">>

\* a scan that takes the first readable record, whatever its storagePath
recordMatches_anyRecord(c, name) == IsRecord(c)

\* the scan's test of one listed file: readJsonFile succeeds and
\* value.storagePath === objectName
recordMatches(c, name) == IsRecord(c) /\ c.storagePath = name

\* resolveSessionRecordPath: the candidate named after the epoch when it
\* exists, else the first listed record whose storagePath is the object
\* name (unreadable records are skipped), else null.
resolveSessionRecordPath(store, icdKey, name, uploadEpoch) ==
  LET candidate == SessionPath(icdKey, EpochFile(uploadEpoch))
      matches(i) == recordMatches(store[SessionPath(icdKey, ScanOrder[i])], name)
      hits == {i \in 1..Len(ScanOrder) : matches(i)}
  IN  IF uploadEpoch # "" /\ candidate \in DOMAIN store /\ store[candidate] # NoFile
        THEN candidate
        ELSE IF hits = {} THEN NoPath
             ELSE SessionPath(icdKey, ScanOrder[CHOOSE i \in hits : \A k \in hits : i <= k])

\* a gate that looks at the status alone
alreadyProcessed_statusOnly(s) ==
  s.status = "Pending review" \/ s.status = "Reviewed"

\* a gate that forgets the Reviewed status
alreadyProcessed_pendingOnly(s) ==
  /\ s.status = "Pending review"
  /\ s.analysisJsonPath # NoPath
  /\ s.processedVideoPath # NoPath

\* The idempotency gate of processVideoObject.
alreadyProcessed(s) ==
  /\ s.status \in {"Pending review", "Reviewed"}
  /\ s.analysisJsonPath # NoPath
  /\ s.processedVideoPath # NoPath

VARIABLES
  eventType,        \* the notification's event type
  objectName,       \* the notification's object name
  sessions,         \* storage: session record files
  sourceExists,     \* storage: the uploaded video object exists
  objects,          \* storage: artifact objects that exist
  failures,         \* external calls that have thrown so far
  pc,               \* per delivery: position in the handler / job
  recordPath,       \* per job: sessionRecordPath
  session,          \* per job: the record last read (session / existingSession)
  error,            \* per job: message of the error caught by the try block
  tmpRoot,          \* per job: state of the temporary directory
  pendingUploads,   \* per job: uploads of Promise.all not yet settled
  analyzerRuns,     \* per job: analyzeVideo invocations
  written,          \* per job: status values written to the session, in order
  response          \* per job: HTTP response of the adapter

jobVars == <<eventType, objectName, sessions, sourceExists, objects, failures,
             pc, recordPath, session, error, tmpRoot, pendingUploads,
             analyzerRuns, written, response>>

\* Times of the analyzer are kept relative to Date.now(): a deadline t is held
\* as the time left until it, t - now, and as 0 once it has passed, so
\* "pauseUntil <= now" reads pauseUntil = 0 and "now + ms" reads ms.
VARIABLES
  pauseUntil,           \* GlobalRateLimitController.pauseUntil (time left)
  currentPausePromise,  \* time left of the pending pause sleep, or NoTimer
  wpc,                  \* per worker: position in callWithPolicy
  calls,                \* callWithPolicy invocations started so far
  transientRetryCount,  \* per call: transientRetryCount
  rateLimitHitCount,    \* per call: rateLimitHitCount
  sleepUntil,           \* per call: time left of the retry sleep
  callDeadline,         \* per call: time left of the withTimeout sleep
  attempts,             \* per call: invocations of requestFn
  triggers,             \* per call: triggerPause calls
  rateLimitErrors,      \* per call: rate-limit errors caught
  caught,               \* the worker and error of the catch block that just ran
  orphans,              \* requests whose caller timed out and that have not settled
  pauseSleeps,          \* pending sleeps created by waitIfPaused
  rejections,           \* requests that have rejected or timed out so far
  skipMessage           \* per call: message of the SkipUnitError thrown

policyVars == <<pauseUntil, currentPausePromise, wpc, calls,
                transientRetryCount, rateLimitHitCount, sleepUntil,
                callDeadline, attempts, triggers, rateLimitErrors, caught,
                orphans, pauseSleeps, rejections, skipMessage>>

\* Seconds of the analyzer are integers in units of 0.1 ms, so that rounding
\* to three decimals (Number(x.toFixed(3))) is an operation of the model.
VARIABLES
  purePc,        \* which function has been applied to the inputs
  durationSec,   \* buildSegments: its argument
  segments,      \* buildSegments: its result
  items,         \* mergeBehaviors: its argument
  merged,        \* mergeBehaviors(items)
  remerged       \* mergeBehaviors(mergeBehaviors(items))

pureVars == <<purePc, durationSec, segments, items, merged, remerged>>

VARIABLES
  poolPc,        \* runWithConcurrency: not called, running, or returned
  poolItems,     \* runWithConcurrency: its `items`
  cursor,        \* runWithConcurrency: `cursor`
  results,       \* runWithConcurrency: `results`, indexed from 0
  index,         \* per runNext: its `index`
  runPc,         \* per runNext: not started, awaiting its worker call, returned
  handed,        \* per index: calls of the worker function on it
  completed,     \* indices in the order their worker calls resolved
  returned       \* what runWithConcurrency returned

poolVars == <<poolPc, poolItems, cursor, results, index, runPc, handed,
              completed, returned>>

VARIABLES
  stage,                   \* analyzeVideo: the stage it is in
  detectOutcome,           \* per segment: what its detection unit met
  detectCalls,             \* per segment: the policy-wrapped calls of its unit
  detectionsBySegment,     \* analyzeVideo: `detectionsBySegment`
  rawDetections,           \* analyzeVideo: `rawDetections`
  mergedBeforeValidation,  \* analyzeVideo: `mergedBeforeValidation`
  validateOutcome,         \* per merged span: what its validation unit met
  validatedEntries,        \* analyzeVideo: `validatedEntries`
  validatedOnly,           \* analyzeVideo: `validatedOnly`
  artifacts,               \* files written under outputDir
  raisedBy                 \* what made analyzeVideo reject, "" if nothing

analyzeVars == <<stage, detectOutcome, detectCalls, detectionsBySegment, rawDetections,
                 mergedBeforeValidation, validateOutcome, validatedEntries,
                 validatedOnly, artifacts, raisedBy>>

VARIABLES
  fileClock,               \* Date.now() as waitForFileReady sees it, in ms
  fileDeadline,            \* waitForFileReady: `deadline`
  fileState                \* waitForFileReady: `file.state`, "" before a get

readyVars == <<fileClock, fileDeadline, fileState>>

VARIABLES
  rejectionCap             \* requests the service rejects or lets time out, at most

serviceVars == <<rejectionCap>>

VARIABLES
  edited                   \* an external writer has changed reviewNotes

externalVars == <<edited>>

VARIABLES
  method,                  \* the HTTP request: req.method
  url,                     \* req.url
  authorization,           \* req.headers.authorization, split on " "
  workerToken              \* WORKER_API_TOKEN, "" when not configured

serverVars == <<method, url, authorization, workerToken>>

\* the variables outside the job processor and the call policy
stageVars == <<pureVars, poolVars, analyzeVars, readyVars, serviceVars,
              externalVars, serverVars>>
notPure == <<jobVars, policyVars, poolVars, analyzeVars, readyVars, serviceVars,
             externalVars, serverVars>>
notPool == <<jobVars, policyVars, pureVars, analyzeVars, readyVars, serviceVars,
             externalVars, serverVars>>
notAnalyze == <<jobVars, policyVars, poolVars, purePc, items, remerged,
                readyVars, serviceVars, externalVars, serverVars>>
notReady == <<jobVars, policyVars, poolVars, purePc, items, remerged,
              serviceVars, externalVars, serverVars>>

NoResponse == [code |-> 0, reason |-> ""]

\* Records a session file can hold before a delivery arrives.
InitRecords(sp) ==
  LET a == finalJsonDestination(sp)
      v == outputVideoDestination(sp)
  IN  { SessionRecord("Awaiting", NoPath, NoPath, "", 0, 0, sp),
        SessionRecord("Processing", NoPath, NoPath, "", 0, 1, sp),
        SessionRecord("Failed", NoPath, NoPath, "analyze", 1, 1, sp),
        SessionRecord("Pending review", a, v, "", 0, 1, sp),
        SessionRecord("Reviewed", a, v, "", 0, 1, sp),
        SessionRecord("Pending review", NoPath, NoPath, "", 0, 1, sp),
        SessionRecord("Reviewed", a, NoPath, "", 0, 1, sp) }

\* The epoch-named file p1 holds any of the records; the legacy file p2, found
\* by the scan, holds a record of this video, of another video, or no JSON.
InitStores ==
  LET p1 == SessionPath("icd-a", "1234.json")
      p2 == SessionPath("icd-a", "legacy.json")
      a == finalJsonDestination(VideoName)
      v == outputVideoDestination(VideoName)
  IN  { (p1 :> r) @@ (p2 :> NoFile) : r \in InitRecords(VideoName) }
      \cup { (p1 :> NoFile) @@ (p2 :> r) :
               r \in { SessionRecord("Awaiting", NoPath, NoPath, "", 0, 0, VideoName),
                       SessionRecord("Pending review", a, v, "", 0, 1, VideoName),
                       SessionRecord("Awaiting", NoPath, NoPath, "", 0, 0, LegacyVideoName) } }
      \cup { (p1 :> NoFile) @@ (p2 :> NoFile),
             (p1 :> NoFile) @@ (p2 :> Malformed),
             (p1 :> Malformed) @@ (p2 :> NoFile) }

\* Artifact objects the stored records refer to.
ReferencedObjects(store) ==
  UNION { {store[p].analysisJsonPath, store[p].processedVideoPath} \ {NoPath} :
          p \in {q \in DOMAIN store : IsRecord(store[q])} }

\* A push request that has passed the routing and the authentication of the
\* request handler.
RequestAccepted ==
  /\ method = "POST"
  /\ url = "/pubsub/storage-finalize"
  /\ authorization = <<"">>
  /\ workerToken = ""

\* The event type in other letter case is delivered for the Awaiting session;
\* the event type as sent, for every store.
\* the state before any of the first n deliveries has arrived
JobFresh(n) ==
  /\ eventType \in EventTypes
  /\ objectName \in ObjectNames
  /\ sessions \in InitStores
  /\ eventType = "object_finalize"
       => sessions[SessionPath("icd-a", "1234.json")]
            = SessionRecord("Awaiting", NoPath, NoPath, "", 0, 0, VideoName)
  /\ sourceExists \in BOOLEAN
  /\ objects = ReferencedObjects(sessions)
  /\ failures = 0
  /\ pc = [j \in Jobs |-> IF j <= n THEN "idle" ELSE "absent"]
  /\ recordPath = [j \in Jobs |-> NoPath]
  /\ session = [j \in Jobs |-> NoSession]
  /\ error = [j \in Jobs |-> ""]
  /\ tmpRoot = [j \in Jobs |-> "none"]
  /\ pendingUploads = [j \in Jobs |-> {}]
  /\ analyzerRuns = [j \in Jobs |-> 0]
  /\ written = [j \in Jobs |-> <<>>]
  /\ response = [j \in Jobs |-> NoResponse]
  /\ edited = FALSE
  /\ RequestAccepted

JobInit == JobFresh(NJobs)

\* ---------------------------------------------------------------- helpers
Respond(j, code, reason) ==
  /\ pc' = [pc EXCEPT ![j] = "done"]
  /\ response' = [response EXCEPT ![j] = [code |-> code, reason |-> reason]]

CanFail == failures < MaxFailures
Fail == failures' = failures + 1

RecordOf(j) == sessions[recordPath[j]]

\* writeJsonFile(bucket, sessionRecordPath, value)
WriteSession(j, value) ==
  /\ sessions' = [sessions EXCEPT ![recordPath[j]] = value]
  /\ written' = [written EXCEPT ![j] = Append(@, value.status)]

\* ------------------------------------------------- server.mjs + job entry
\* Authorization headers, as header.split(" ") yields them: absent, the
\* exact header for the token "secret", other schemes, tokens and spacings.
Headers ==
  { <<"">>, <<"Bearer">>, <<"Bearer", "secret">>, <<"Bearer", "wrong">>,
    <<"bearer", "secret">>, <<"Basic", "secret">>, <<"Bearer", "", "secret">>,
    <<"Bearer", "secret", "x">> }

\* verifyAuth: const [scheme, token] = header.split(" ")
verifyAuth(header, token) ==
  IF token = "" THEN TRUE
  ELSE /\ header[1] = "Bearer"
       /\ Len(header) >= 2
       /\ header[2] = token

\* The request handler up to the registration of the body listeners.
HandleRequest(j) ==
  /\ UNCHANGED <<policyVars, stageVars>>
  /\ pc[j] = "arrived"
  /\ IF method = "GET" /\ url = "/healthz"
       THEN Respond(j, 200, "ok: true")
     ELSE IF method # "POST" \/ url # "/pubsub/storage-finalize"
       THEN Respond(j, 404, "Not found.")
     ELSE IF ~verifyAuth(authorization, workerToken)
       THEN Respond(j, 401, "Unauthorized.")
     ELSE pc' = [pc EXCEPT ![j] = "idle"] /\ UNCHANGED response
  /\ UNCHANGED <<eventType, objectName, sessions, sourceExists, objects,
                 failures, recordPath, session, error, tmpRoot,
                 pendingUploads, analyzerRuns, written>>

\* The request handler up to the first await of processVideoObject.
Receive(j) ==
  /\ UNCHANGED <<policyVars, stageVars>>
  /\ pc[j] = "idle"
  /\ IF ~isFinalizeEvent(eventType)
       THEN Respond(j, 200, "non_finalize_event")
     ELSE IF ~shouldProcessObjectName(objectName)
       THEN Respond(j, 200, "non_child_video_path")
     ELSE IF objectName = <<"">> \/ ~StartsWithVideosPrefix(objectName)
             \/ EndsWithSlash(objectName)
       THEN Respond(j, 200, "unsupported_object")
     ELSE IF Len(objectName) < 4
       THEN Respond(j, 200, "invalid_object_path")
     ELSE pc' = [pc EXCEPT ![j] = "exists"] /\ UNCHANGED response
  /\ UNCHANGED <<eventType, objectName, sessions, sourceExists, objects,
                 failures, recordPath, session, error, tmpRoot,
                 pendingUploads, analyzerRuns, written>>

\* const [exists] = await sourceFile.exists()
SourceExists(j) ==
  /\ UNCHANGED <<policyVars, stageVars>>
  /\ pc[j] = "exists"
  /\ \/ /\ sourceExists
        /\ pc' = [pc EXCEPT ![j] = "resolve"]
        /\ UNCHANGED <<response, failures>>
     \/ /\ ~sourceExists
        /\ Respond(j, 200, "source_missing")
        /\ UNCHANGED failures
     \/ /\ CanFail /\ Fail
        /\ Respond(j, 500, "exists")
  /\ UNCHANGED <<eventType, objectName, sessions, sourceExists, objects,
                 recordPath, session, error, tmpRoot, pendingUploads,
                 analyzerRuns, written>>

\* await resolveSessionRecordPath(...); throws when it yields null
Resolve(j) ==
  /\ UNCHANGED <<policyVars, stageVars>>
  /\ pc[j] = "resolve"
  /\ LET found == resolveSessionRecordPath(sessions, objectName[3], objectName,
                     parseUploadEpochFromObjectPath(objectName))
     IN  \/ /\ found # NoPath
            /\ recordPath' = [recordPath EXCEPT ![j] = found]
            /\ pc' = [pc EXCEPT ![j] = "read"]
            /\ UNCHANGED <<response, failures>>
         \/ /\ found = NoPath
            /\ Respond(j, 500, "Session record not found")
            /\ UNCHANGED <<recordPath, failures>>
         \/ /\ CanFail /\ Fail
            /\ Respond(j, 500, "list")
            /\ UNCHANGED recordPath
  /\ UNCHANGED <<eventType, objectName, sessions, sourceExists, objects,
                 session, error, tmpRoot, pendingUploads, analyzerRuns, written>>

\* const session = await readJsonFile(...); the idempotency gate
ReadSession(j) ==
  /\ UNCHANGED <<policyVars, stageVars>>
  /\ pc[j] = "read"
  /\ \/ /\ IsRecord(RecordOf(j))
        /\ IF alreadyProcessed(RecordOf(j))
             THEN /\ Respond(j, 200, "already_processed")
                  /\ UNCHANGED session
             ELSE /\ session' = [session EXCEPT ![j] = RecordOf(j)]
                  /\ pc' = [pc EXCEPT ![j] = "writeProcessing"]
                  /\ UNCHANGED response
        /\ UNCHANGED failures
     \/ /\ ~IsRecord(RecordOf(j))
        /\ Respond(j, 500, "read")
        /\ UNCHANGED <<session, failures>>
     \/ /\ CanFail /\ Fail
        /\ Respond(j, 500, "read")
        /\ UNCHANGED session
  /\ UNCHANGED <<eventType, objectName, sessions, sourceExists, objects,
                 recordPath, error, tmpRoot, pendingUploads, analyzerRuns,
                 written>>

\* await writeJsonFile(..., {...session, status: "Processing", ...})
WriteProcessing(j) ==
  /\ UNCHANGED <<policyVars, stageVars>>
  /\ pc[j] = "writeProcessing"
  /\ \/ /\ WriteSession(j, [session[j] EXCEPT !.status = "Processing",
                                              !.processingStartedAt = j,
                                              !.processingError = ""])
        /\ pc' = [pc EXCEPT ![j] = "mkdtemp"]
        /\ UNCHANGED <<response, failures>>
     \/ /\ CanFail /\ Fail
        /\ Respond(j, 500, "write")
        /\ UNCHANGED <<sessions, written>>
  /\ UNCHANGED <<eventType, objectName, sourceExists, objects, recordPath,
                 session, error, tmpRoot, pendingUploads, analyzerRuns>>

\* fs.mkdtempSync(...); fs.mkdirSync(outputDir): both before the try block
CreateTmp(j) ==
  /\ UNCHANGED <<policyVars, stageVars>>
  /\ pc[j] = "mkdtemp"
  /\ \/ /\ tmpRoot' = [tmpRoot EXCEPT ![j] = "created"]
        /\ pc' = [pc EXCEPT ![j] = "download"]
        /\ UNCHANGED <<response, failures>>
     \/ /\ CanFail /\ Fail
        /\ Respond(j, 500, "mkdtemp")
        /\ UNCHANGED tmpRoot
     \/ /\ CanFail /\ Fail
        /\ tmpRoot' = [tmpRoot EXCEPT ![j] = "created"]
        /\ Respond(j, 500, "mkdir")
  /\ UNCHANGED <<eventType, objectName, sessions, sourceExists, objects,
                 recordPath, session, error, pendingUploads, analyzerRuns,
                 written>>

\* an awaited call inside the try block throws: control goes to catch
Catch(j, msg) ==
  /\ pc' = [pc EXCEPT ![j] = "catchRead"]
  /\ error' = [error EXCEPT ![j] = msg]

\* await sourceFile.download({destination: inputPath})
Download(j) ==
  /\ UNCHANGED <<policyVars, stageVars>>
  /\ pc[j] = "download"
  /\ \/ /\ pc' = [pc EXCEPT ![j] = "analyze"]
        /\ UNCHANGED <<error, failures>>
     \/ /\ CanFail /\ Fail
        /\ Catch(j, "download")
  /\ UNCHANGED <<eventType, objectName, sessions, sourceExists, objects,
                 recordPath, session, tmpRoot, pendingUploads, analyzerRuns,
                 written, response>>

\* the error burnSubtitles rejects with: `ffmpeg failed with ${code}: ${stderr}`
BurnError == "ffmpeg failed with 1: stderr"

\* Messages analyzeVideo rejects with: an error of an earlier step, or the
\* error of the subtitle burn, its last step.
AnalyzerErrors == {"analyze", BurnError}

\* what analyzeVideo returns, as far as the session record uses it
Analysis == [dominantCategory |-> "crying"]

\* const analysis = await analyzeVideo(...); then Promise.all starts the
\* four uploads
Analyze(j) ==
  /\ UNCHANGED <<policyVars, stageVars>>
  /\ pc[j] = "analyze"
  /\ analyzerRuns' = [analyzerRuns EXCEPT ![j] = @ + 1]
  /\ \/ /\ pc' = [pc EXCEPT ![j] = "upload"]
        /\ pendingUploads' = [pendingUploads EXCEPT ![j] = Artifacts]
        /\ UNCHANGED <<error, failures>>
     \/ /\ CanFail /\ Fail
        /\ \E msg \in AnalyzerErrors : Catch(j, msg)
        /\ UNCHANGED pendingUploads
  /\ UNCHANGED <<eventType, objectName, sessions, sourceExists, objects,
                 recordPath, session, tmpRoot, written, response>>


\* a join that resolves at the first completed upload
uploadsJoined_first(pending, a) == TRUE

\* Promise.all resolves when the last pending upload completes
uploadsJoined(pending, a) == pending = {a}

\* one bucket.upload of the Promise.all completes
UploadLand(j, a) ==
  /\ UNCHANGED <<policyVars, stageVars>>
  /\ a \in pendingUploads[j]
  /\ pendingUploads' = [pendingUploads EXCEPT ![j] = @ \ {a}]
  /\ objects' = objects \cup {ArtifactPath(objectName[3], safeUploadEpoch(objectName), a)}
  /\ pc' = IF pc[j] = "upload" /\ uploadsJoined(pendingUploads[j], a)
             THEN [pc EXCEPT ![j] = "reread"] ELSE pc
  /\ UNCHANGED <<eventType, objectName, sessions, sourceExists, failures,
                 recordPath, session, error, tmpRoot, analyzerRuns, written,
                 response>>

\* one bucket.upload rejects: Promise.all rejects at the first rejection,
\* the other uploads keep running (a later rejection is ignored)
UploadFail(j, a) ==
  /\ UNCHANGED <<policyVars, stageVars>>
  /\ pc[j] = "upload"
  /\ a \in pendingUploads[j]
  /\ CanFail /\ Fail
  /\ pendingUploads' = [pendingUploads EXCEPT ![j] = @ \ {a}]
  /\ Catch(j, "upload")
  /\ UNCHANGED <<eventType, objectName, sessions, sourceExists, objects,
                 recordPath, session, tmpRoot, analyzerRuns, written, response>>

\* const existingSession = await readJsonFile(...) after the uploads
ReRead(j) ==
  /\ UNCHANGED <<policyVars, stageVars>>
  /\ pc[j] = "reread"
  /\ \/ /\ session' = [session EXCEPT ![j] = RecordOf(j)]
        /\ pc' = [pc EXCEPT ![j] = "writeFinal"]
        /\ UNCHANGED <<error, failures>>
     \/ /\ CanFail /\ Fail
        /\ Catch(j, "read")
        /\ UNCHANGED session
  /\ UNCHANGED <<eventType, objectName, sessions, sourceExists, objects,
                 recordPath, tmpRoot, pendingUploads, analyzerRuns, written,
                 response>>

\* finally { fs.rmSync(tmpRoot, ...) }
Finally(j) == tmpRoot' = [tmpRoot EXCEPT ![j] = "removed"]

\* a success record with the status the README names
PendingReviewRecord_reviewed(existing, name) ==
  [existing EXCEPT !.status = "Reviewed",
                   !.analysisJsonPath = finalJsonDestination(name),
                   !.processedVideoPath = outputVideoDestination(name),
                   !.processingError = "",
                   !.dominantCategory = Analysis.dominantCategory]

\* the record written on success
PendingReviewRecord(existing, name) ==
  [existing EXCEPT !.status = "Pending review",
                   !.analysisJsonPath = finalJsonDestination(name),
                   !.processedVideoPath = outputVideoDestination(name),
                   !.processingError = "",
                   !.dominantCategory = Analysis.dominantCategory]

\* await writeJsonFile(..., {...existingSession, status: "Pending review", ...})
WriteFinal(j) ==
  /\ UNCHANGED <<policyVars, stageVars>>
  /\ pc[j] = "writeFinal"
  /\ \/ /\ WriteSession(j, PendingReviewRecord(session[j], objectName))
        /\ Finally(j)
        /\ Respond(j, 200, "ok")
        /\ UNCHANGED <<error, failures>>
     \/ /\ CanFail /\ Fail
        /\ Catch(j, "write")
        /\ UNCHANGED <<sessions, written, tmpRoot, response>>
  /\ UNCHANGED <<eventType, objectName, sourceExists, objects, recordPath,
                 session, pendingUploads, analyzerRuns>>

\* catch: const existingSession = await readJsonFile(...)
CatchRead(j) ==
  /\ UNCHANGED <<policyVars, stageVars>>
  /\ pc[j] = "catchRead"
  /\ \/ /\ session' = [session EXCEPT ![j] = RecordOf(j)]
        /\ pc' = [pc EXCEPT ![j] = "writeFailed"]
        /\ UNCHANGED <<tmpRoot, response, failures>>
     \/ /\ CanFail /\ Fail
        /\ Finally(j)
        /\ Respond(j, 500, "read")
        /\ UNCHANGED session
  /\ UNCHANGED <<eventType, objectName, sessions, sourceExists, objects,
                 recordPath, error, pendingUploads, analyzerRuns, written>>

\* a catch block that puts the session back in the queue
FailedRecord_requeue(existing, j, msg) ==
  [existing EXCEPT !.status = "Awaiting", !.failedAt = j, !.processingError = msg]

\* a catch block that records the artifact destinations
FailedRecord_withPaths(existing, j, msg) ==
  [existing EXCEPT !.status = "Failed", !.failedAt = j, !.processingError = msg,
                   !.analysisJsonPath = finalJsonDestination(existing.storagePath),
                   !.processedVideoPath = outputVideoDestination(existing.storagePath)]

\* the record written by the catch block
FailedRecord(existing, j, msg) ==
  [existing EXCEPT !.status = "Failed", !.failedAt = j, !.processingError = msg]

\* catch: await writeJsonFile(..., {...existingSession, status: "Failed", ...});
\* throw error; finally
WriteFailed(j) ==
  /\ UNCHANGED <<policyVars, stageVars>>
  /\ pc[j] = "writeFailed"
  /\ \/ /\ WriteSession(j, FailedRecord(session[j], j, error[j]))
        /\ Respond(j, 500, error[j])
        /\ UNCHANGED failures
     \/ /\ CanFail /\ Fail
        /\ Respond(j, 500, "write")
        /\ UNCHANGED <<sessions, written>>
  /\ Finally(j)
  /\ UNCHANGED <<eventType, objectName, sourceExists, objects, recordPath,
                 session, error, pendingUploads, analyzerRuns>>

\* An external writer (the review UI) saves the session record with its
\* reviewNotes changed while a job is running; it does so once.
ExternalEdit(p) ==
  /\ UNCHANGED <<policyVars, pureVars, poolVars, analyzeVars, readyVars,
                 serviceVars, serverVars>>
  /\ ~edited
  /\ \E j \in Jobs : pc[j] \notin {"idle", "done", "absent"}
  /\ IsRecord(sessions[p])
  /\ sessions' = [sessions EXCEPT ![p].reviewNotes = "edited"]
  /\ edited' = TRUE
  /\ UNCHANGED <<eventType, objectName, sourceExists, objects, failures, pc,
                 recordPath, session, error, tmpRoot, pendingUploads,
                 analyzerRuns, written, response>>

JobNext ==
  \E j \in Jobs :
    \/ Receive(j)
    \/ SourceExists(j)
    \/ Resolve(j)
    \/ ReadSession(j)
    \/ WriteProcessing(j)
    \/ CreateTmp(j)
    \/ Download(j)
    \/ Analyze(j)
    \/ \E a \in Artifacts : UploadLand(j, a)
    \/ \E a \in Artifacts : UploadFail(j, a)
    \/ ReRead(j)
    \/ WriteFinal(j)
    \/ CatchRead(j)
    \/ WriteFailed(j)

\* ------------------------------------------------------ analyzer-core.mjs
GLOBAL_RATE_LIMIT_PAUSE_MS == 300000
MAX_TRANSIENT_RETRIES == 3
TRANSIENT_RETRY_INTERVAL_MS == 60000
GEMINI_CALL_TIMEOUT_MS == 120000
FILE_READY_TIMEOUT_MS == 300000

\* The callers of callWithPolicy: the pool workers of one stage, each making
\* one call at a time; Labels are the calls the stage makes.
Workers == 1..NWorkers
Labels == {"detect-0", "detect-1", "detect-2"}
MaxCalls == Cardinality(Labels)

\* Errors a request may reject with: numeric status / code and a message.
ApiError(st, cd, msg) == [status |-> st, code |-> cd, message |-> msg]
\* the error withTimeout throws: `${label} timed out after ${timeoutMs}ms`
TimeoutError == ApiError(0, 0, "timed out after 120000ms")
Errors ==
  { ApiError(429, 0, ""),
    ApiError(0, 429, ""),
    ApiError(0, 0, "RESOURCE_EXHAUSTED"),
    ApiError(503, 0, "Service Unavailable"),
    ApiError(0, 0, "Deadline exceeded"),
    ApiError(400, 0, "Bad Request") }

\* String(error?.message || "").toLowerCase().includes(word)
MessageIncludes(msg, word) ==
  CASE word = "429" -> FALSE
    [] word = "rate limit" -> FALSE
    [] word = "resource_exhausted" -> msg = "RESOURCE_EXHAUSTED"
    [] word = "internal error" -> FALSE
    [] word = "unavailable" -> msg = "Service Unavailable"
    [] word = "deadline exceeded" -> msg = "Deadline exceeded"
    [] word = "timed out" -> msg = "timed out after 120000ms"
    [] OTHER -> FALSE

isRateLimitError(e) ==
  \/ e.status = 429
  \/ e.code = 429
  \/ MessageIncludes(e.message, "429")
  \/ MessageIncludes(e.message, "rate limit")
  \/ MessageIncludes(e.message, "resource_exhausted")

\* a classifier that retries client errors (status >= 400) too
isRetryableError_clientErrors(e) ==
  \/ isRateLimitError(e)
  \/ (IF e.status # 0 THEN e.status ELSE e.code) >= 400

isRetryableError(e) ==
  \/ isRateLimitError(e)
  \/ (IF e.status # 0 THEN e.status ELSE e.code) >= 500
  \/ MessageIncludes(e.message, "internal error")
  \/ MessageIncludes(e.message, "unavailable")
  \/ MessageIncludes(e.message, "deadline exceeded")
  \/ MessageIncludes(e.message, "timed out")

\* String(error?.message || error)
ErrorText(e) == IF e.message # "" THEN e.message ELSE "Error"

NoTimer == -1
NoCatch == [worker |-> 0, error |-> ApiError(0, 0, "none")]

\* a test that allows a pause on the second rate-limit error too
isFirstRateLimitHit_twice(count) == count <= 1

\* rateLimitHitCount === 0: the first rate-limit error of this call
isFirstRateLimitHit(count) == count = 0

\* a budget test that never finds the budget spent
retriesExhausted_never(count) == FALSE

\* an off-by-one budget test
retriesExhausted_offByOne(count) == count > MAX_TRANSIENT_RETRIES

\* transientRetryCount >= MAX_TRANSIENT_RETRIES: the retry budget is spent
retriesExhausted(count) == count >= MAX_TRANSIENT_RETRIES

\* a fresh rate controller and the runNext workers of a pool, none of which
\* has made a call; the service fails at most cap requests
CallersInit(pool, cap) ==
  /\ rejectionCap = cap
  /\ pauseUntil = 0
  /\ currentPausePromise = NoTimer
  /\ wpc = [w \in Workers |-> IF w \in pool THEN "idle" ELSE "absent"]
  /\ calls = 0
  /\ transientRetryCount = [w \in Workers |-> 0]
  /\ rateLimitHitCount = [w \in Workers |-> 0]
  /\ sleepUntil = [w \in Workers |-> 0]
  /\ callDeadline = [w \in Workers |-> 0]
  /\ attempts = [w \in Workers |-> 0]
  /\ triggers = [w \in Workers |-> 0]
  /\ rateLimitErrors = [w \in Workers |-> 0]
  /\ caught = NoCatch
  /\ orphans = 0
  /\ pauseSleeps = 0
  /\ rejections = 0
  /\ skipMessage = [w \in Workers |-> ""]

PolicyInit == CallersInit(Workers, MaxRejections)

\* the pool of a stage with one unit: one worker, its calls one after another
CallInit == CallersInit({1}, MaxCallRejections)

\* Run to completion: the continuations of resolved promises (the loop top,
\* the thunk call after waitIfPaused returned, a free pool worker taking the
\* next item) run before the next timer or network event is handled.
MicrotaskPending ==
  \E w \in Workers :
    \/ wpc[w] \in {"ready", "loop"}
    \/ wpc[w] \in {"idle", "returned", "skipped"} /\ calls < MaxCalls

\* the time left until a deadline after d ms have passed
Later(t, d) == IF t > d THEN t - d ELSE IF t = NoTimer THEN NoTimer ELSE 0

\* Time passes by one retry interval while some timer is pending (a call
\* timeout is two intervals, a pause five).
Tick ==
  /\ UNCHANGED <<jobVars, stageVars>>
  /\ ~MicrotaskPending
  /\ \/ pauseUntil > 0
     \/ currentPausePromise > 0
     \/ \E w \in Workers : sleepUntil[w] > 0 \/ callDeadline[w] > 0
  /\ pauseUntil' = Later(pauseUntil, TRANSIENT_RETRY_INTERVAL_MS)
  /\ currentPausePromise' = Later(currentPausePromise, TRANSIENT_RETRY_INTERVAL_MS)
  /\ sleepUntil' = [w \in Workers |-> Later(sleepUntil[w], TRANSIENT_RETRY_INTERVAL_MS)]
  /\ callDeadline' = [w \in Workers |-> Later(callDeadline[w], TRANSIENT_RETRY_INTERVAL_MS)]
  /\ caught' = NoCatch
  /\ UNCHANGED rejections
  /\ UNCHANGED <<wpc, calls, transientRetryCount, rateLimitHitCount,
                 attempts, triggers, rateLimitErrors, skipMessage,
                 orphans, pauseSleeps>>

\* a test that never finds the pending sleep
sharedSleepPending_never(promise) == FALSE

\* this.currentPausePromise is set: a sleep is pending
sharedSleepPending(promise) == promise # NoTimer

\* waitIfPaused() up to its await, for a controller whose deadline is pu:
\* returns at once when the deadline has passed, else awaits the shared
\* sleep, creating it (waitMs = pauseUntil - now) when none is pending.
\* free / blocked are the positions the caller continues from.
waitIfPaused(w, pu, free, blocked) ==
  IF pu <= 0
    THEN /\ wpc' = [wpc EXCEPT ![w] = free]
         /\ UNCHANGED <<currentPausePromise, pauseSleeps>>
    ELSE /\ wpc' = [wpc EXCEPT ![w] = blocked]
         /\ IF sharedSleepPending(currentPausePromise)
              THEN UNCHANGED <<currentPausePromise, pauseSleeps>>
              ELSE /\ currentPausePromise' = pu
                   /\ pauseSleeps' = pauseSleeps + 1

\* triggerPause(label): move the deadline forward, then waitIfPaused()
triggerPause(w) ==
  LET nextPauseUntil == GLOBAL_RATE_LIMIT_PAUSE_MS
      pu == IF nextPauseUntil > pauseUntil THEN nextPauseUntil ELSE pauseUntil
  IN  /\ pauseUntil' = pu
      /\ waitIfPaused(w, pu, "loop", "blockedTrigger")

\* a pool worker (started in order by the pool, or free again) calls
\* callWithPolicy(...): counters at 0, first waitIfPaused()
StartCall(w) ==
  /\ UNCHANGED <<jobVars, stageVars>>
  /\ wpc[w] \in {"idle", "returned", "skipped"}
  /\ wpc[w] = "idle" => \A v \in Workers : v < w => wpc[v] # "idle"
  /\ calls < MaxCalls
  /\ calls' = calls + 1
  /\ UNCHANGED orphans
  /\ transientRetryCount' = [transientRetryCount EXCEPT ![w] = 0]
  /\ rateLimitHitCount' = [rateLimitHitCount EXCEPT ![w] = 0]
  /\ attempts' = [attempts EXCEPT ![w] = 0]
  /\ triggers' = [triggers EXCEPT ![w] = 0]
  /\ rateLimitErrors' = [rateLimitErrors EXCEPT ![w] = 0]
  /\ skipMessage' = [skipMessage EXCEPT ![w] = ""]
  /\ caught' = NoCatch
  /\ UNCHANGED rejections
  /\ waitIfPaused(w, pauseUntil, "ready", "blocked")
  /\ UNCHANGED <<pauseUntil, sleepUntil, callDeadline>>

\* top of the while loop after `continue` or after the retry sleep
Loop(w) ==
  /\ UNCHANGED <<jobVars, stageVars>>
  /\ wpc[w] = "loop"
  /\ waitIfPaused(w, pauseUntil, "ready", "blocked")
  /\ caught' = NoCatch
  /\ UNCHANGED rejections
  /\ UNCHANGED <<pauseUntil, calls, transientRetryCount,
                 rateLimitHitCount, sleepUntil, callDeadline, attempts,
                 triggers, rateLimitErrors, skipMessage,
                 orphans>>

\* an expiry handler that also clears the deadline
PauseTimerFire_clearsDeadline ==
  /\ UNCHANGED <<jobVars, stageVars>>
  /\ ~MicrotaskPending
  /\ currentPausePromise = 0
  /\ currentPausePromise' = NoTimer
  /\ pauseUntil' = 0
  /\ wpc' = [w \in Workers |->
               CASE wpc[w] = "blocked" -> "ready"
                 [] wpc[w] = "blockedTrigger" -> "loop"
                 [] OTHER -> wpc[w]]
  /\ caught' = NoCatch
  /\ UNCHANGED rejections
  /\ pauseSleeps' = pauseSleeps - 1
  /\ UNCHANGED <<calls, transientRetryCount, rateLimitHitCount, sleepUntil,
                 callDeadline, attempts, triggers, rateLimitErrors, skipMessage,
                 orphans>>

\* the shared sleep expires: .finally clears currentPausePromise and every
\* waiter resumes
PauseTimerFire ==
  /\ UNCHANGED <<jobVars, stageVars>>
  /\ ~MicrotaskPending
  /\ currentPausePromise = 0
  /\ currentPausePromise' = NoTimer
  /\ wpc' = [w \in Workers |->
               CASE wpc[w] = "blocked" -> "ready"
                 [] wpc[w] = "blockedTrigger" -> "loop"
                 [] OTHER -> wpc[w]]
  /\ pauseSleeps' = pauseSleeps - 1
  /\ caught' = NoCatch
  /\ UNCHANGED rejections
  /\ UNCHANGED <<pauseUntil, calls, transientRetryCount,
                 rateLimitHitCount, sleepUntil, callDeadline, attempts,
                 triggers, rateLimitErrors, skipMessage,
                 orphans>>

\* withTimeout(requestFn(), GEMINI_CALL_TIMEOUT_MS, label): the thunk is
\* invoked and raced against the timeout sleep
Attempt(w) ==
  /\ UNCHANGED <<jobVars, stageVars>>
  /\ wpc[w] = "ready"
  /\ wpc' = [wpc EXCEPT ![w] = "inflight"]
  /\ attempts' = [attempts EXCEPT ![w] = @ + 1]
  /\ callDeadline' = [callDeadline EXCEPT ![w] = GEMINI_CALL_TIMEOUT_MS]
  /\ caught' = NoCatch
  /\ UNCHANGED rejections
  /\ UNCHANGED <<pauseUntil, currentPausePromise, calls,
                 transientRetryCount, rateLimitHitCount, sleepUntil,
                 triggers, rateLimitErrors, skipMessage,
                 orphans, pauseSleeps>>

\* the request resolves: callWithPolicy returns the response
SettleOk(w) ==
  /\ UNCHANGED <<jobVars, stageVars>>
  /\ ~MicrotaskPending
  /\ wpc[w] = "inflight"
  /\ wpc' = [wpc EXCEPT ![w] = "returned"]
  /\ callDeadline' = [callDeadline EXCEPT ![w] = 0]
  /\ caught' = NoCatch
  /\ UNCHANGED rejections
  /\ UNCHANGED <<pauseUntil, currentPausePromise, calls,
                 transientRetryCount, rateLimitHitCount, sleepUntil,
                 attempts, triggers, rateLimitErrors, skipMessage,
                 orphans, pauseSleeps>>

\* throw new SkipUnitError(msg)
SkipUnit(w, msg) ==
  /\ wpc' = [wpc EXCEPT ![w] = "skipped"]
  /\ skipMessage' = [skipMessage EXCEPT ![w] = msg]

\* the catch block of callWithPolicy for error e
CatchError(w, e) ==
  /\ rejections < rejectionCap
  /\ rejections' = rejections + 1
  /\ caught' = [worker |-> w, error |-> e]
  /\ IF isRateLimitError(e)
    THEN /\ rateLimitErrors' = [rateLimitErrors EXCEPT ![w] = @ + 1]
         /\ IF isFirstRateLimitHit(rateLimitHitCount[w])
              THEN /\ rateLimitHitCount' = [rateLimitHitCount EXCEPT ![w] = @ + 1]
                   /\ triggers' = [triggers EXCEPT ![w] = @ + 1]
                   /\ triggerPause(w)
                   /\ UNCHANGED skipMessage
              ELSE /\ SkipUnit(w, "Skipped after second rate-limit event.")
                   /\ UNCHANGED <<rateLimitHitCount, triggers, pauseUntil,
                                  currentPausePromise, pauseSleeps>>
         /\ UNCHANGED <<transientRetryCount, sleepUntil>>
    ELSE /\ IF ~isRetryableError(e) \/ retriesExhausted(transientRetryCount[w])
              THEN /\ SkipUnit(w, ErrorText(e))
                   /\ UNCHANGED <<transientRetryCount, sleepUntil>>
              ELSE /\ transientRetryCount' = [transientRetryCount EXCEPT ![w] = @ + 1]
                   /\ sleepUntil' = [sleepUntil EXCEPT ![w] = TRANSIENT_RETRY_INTERVAL_MS]
                   /\ wpc' = [wpc EXCEPT ![w] = "retrySleep"]
                   /\ UNCHANGED skipMessage
         /\ UNCHANGED <<rateLimitHitCount, triggers, rateLimitErrors,
                        pauseUntil, currentPausePromise, pauseSleeps>>

\* the request rejects with e
SettleError(w, e) ==
  /\ UNCHANGED <<jobVars, stageVars>>
  /\ ~MicrotaskPending
  /\ wpc[w] = "inflight"
  /\ CatchError(w, e)
  /\ callDeadline' = [callDeadline EXCEPT ![w] = 0]
  /\ UNCHANGED <<calls, attempts, orphans>>

\* Promise.race leaves the losing request running: one more request that
\* was issued and has not settled
abandoned(n) == n + 1

\* the timeout sleep of withTimeout wins the race
CallTimeout(w) ==
  /\ UNCHANGED <<jobVars, stageVars>>
  /\ ~MicrotaskPending
  /\ wpc[w] = "inflight"
  /\ callDeadline[w] = 0
  /\ CatchError(w, TimeoutError)
  /\ orphans' = abandoned(orphans)
  /\ UNCHANGED <<calls, callDeadline, attempts>>

\* a request whose caller timed out settles at last; nobody awaits it
OrphanSettle ==
  /\ UNCHANGED <<jobVars, stageVars>>
  /\ ~MicrotaskPending
  /\ orphans > 0
  /\ orphans' = orphans - 1
  /\ caught' = NoCatch
  /\ UNCHANGED <<pauseUntil, currentPausePromise, wpc, calls,
                 transientRetryCount, rateLimitHitCount, sleepUntil,
                 callDeadline, attempts, triggers, rateLimitErrors,
                 pauseSleeps, rejections, skipMessage>>

\* await sleep(waitMs) returns: back to the top of the loop
RetryWake(w) ==
  /\ UNCHANGED <<jobVars, stageVars>>
  /\ ~MicrotaskPending
  /\ wpc[w] = "retrySleep"
  /\ sleepUntil[w] = 0
  /\ wpc' = [wpc EXCEPT ![w] = "loop"]
  /\ caught' = NoCatch
  /\ UNCHANGED rejections
  /\ UNCHANGED <<pauseUntil, currentPausePromise, calls,
                 transientRetryCount, rateLimitHitCount, sleepUntil,
                 callDeadline, attempts, triggers, rateLimitErrors, skipMessage,
                 orphans, pauseSleeps>>

PolicyNext ==
  \/ Tick
  \/ PauseTimerFire
  \/ OrphanSettle
  \/ \E w \in Workers :
       \/ StartCall(w)
       \/ Loop(w)
       \/ Attempt(w)
       \/ SettleOk(w)
       \/ \E e \in Errors : SettleError(w, e)
       \/ CallTimeout(w)
       \/ RetryWake(w)


\* ------------------------------------- buildSegments and mergeBehaviors
MaxSpans == 3       \* spans in an input of mergeBehaviors

CHUNK_SECONDS == 300000
CHUNK_OVERLAP_SECONDS == 40000
MERGE_GAP_SECONDS == 25000

Min(a, b) == IF a <= b THEN a ELSE b
Max(a, b) == IF a >= b THEN a ELSE b

\* Number(x.toFixed(3)) for x >= 0: the nearest multiple of 1 ms
Round3(x) == ((x + 5) \div 10) * 10

\* a planner that starts each window where the last one ended
nextStart_noOverlap(end) == end

\* start = Math.max(0, end - CHUNK_OVERLAP_SECONDS)
nextStart(end) == IF end - CHUNK_OVERLAP_SECONDS > 0 THEN end - CHUNK_OVERLAP_SECONDS ELSE 0

\* the while loop of buildSegments from `start`, with `acc` pushed so far
RECURSIVE buildFrom(_, _, _)
buildFrom(start, d, acc) ==
  IF ~(start < d)
    THEN acc
    ELSE LET end == Min(start + CHUNK_SECONDS, d)
             pushed == Append(acc, [startSec |-> Round3(start), endSec |-> Round3(end)])
         IN  IF end >= d THEN pushed ELSE buildFrom(nextStart(end), d, pushed)

buildSegments(d) == buildFrom(0, d, <<>>)

\* Durations given to buildSegments: below 1 ms, whole seconds around the
\* window and step sizes, and values with a fraction of a millisecond.
Durations ==
  { 4, 10, 12346, 260000, 300000, 300010, 450000, 450004, 450005,
    560000, 560001, 820000, 1000000 }

\* A behavior span; notes is the list of the "; "-joined parts of the string.
Span(b, m, s, e, n) ==
  [behavior |-> b, modality |-> m, startSec |-> s, endSec |-> e, notes |-> n]

KeyOf(x) == <<x.behavior, x.modality>>

\* [...items].sort((a, b) => a.startSec - b.startSec): stable
RECURSIVE insertSorted(_, _)
insertSorted(x, sorted) ==
  IF sorted = <<>> \/ x.startSec >= Last(sorted).startSec
    THEN Append(sorted, x)
    ELSE Append(insertSorted(x, SubSeq(sorted, 1, Len(sorted) - 1)), Last(sorted))

\* a merge that takes the items in the order given
sortByStart_asGiven(xs) == xs

RECURSIVE sortByStart(_)
sortByStart(xs) ==
  IF xs = <<>> THEN <<>>
  ELSE insertSorted(Last(xs), sortByStart(SubSeq(xs, 1, Len(xs) - 1)))

\* last.notes.includes(item.notes): item's parts occur in a row in last's
notesInclude(lastNotes, itemNotes) ==
  \E i \in 0..(Len(lastNotes) - Len(itemNotes)) :
    SubSeq(lastNotes, i + 1, i + Len(itemNotes)) = itemNotes

\* last.notes ? `${last.notes}; ${item.notes}` : item.notes, when item.notes
\* is not empty and not included yet
mergeNotes(lastNotes, itemNotes) ==
  IF itemNotes # <<>> /\ ~notesInclude(lastNotes, itemNotes)
    THEN lastNotes \o itemNotes
    ELSE lastNotes

\* a test that joins only spans that touch or overlap
withinGap_touching(item, last) == item.startSec <= last.endSec

\* item.startSec <= last.endSec + MERGE_GAP_SECONDS
withinGap(item, last) == item.startSec <= last.endSec + MERGE_GAP_SECONDS

\* a copy that pads the span it opens
newSpan_padded(item) == [item EXCEPT !.endSec = @ + MERGE_GAP_SECONDS]

\* merged.push({ ...item })
newSpan(item) == item

\* a lookup that returns the last span opened, whatever its key
latestByKey_any(out, key) == Len(out)

\* latestByKey.get(key): index in out of the last span opened for the key
latestByKey(out, key) ==
  LET idx == {i \in 1..Len(out) : KeyOf(out[i]) = key}
  IN  IF idx = {} THEN 0 ELSE CHOOSE i \in idx : \A j \in idx : j <= i

\* the for loop of mergeBehaviors over sorted[k..], with `out` merged so far
RECURSIVE mergeFrom(_, _, _)
mergeFrom(sorted, k, out) ==
  IF k > Len(sorted) THEN out
  ELSE LET item == sorted[k]
           lastIndex == latestByKey(out, KeyOf(item))
       IN  IF lastIndex = 0
             THEN mergeFrom(sorted, k + 1, Append(out, newSpan(item)))
             ELSE IF withinGap(item, out[lastIndex])
               THEN mergeFrom(sorted, k + 1,
                      [out EXCEPT ![lastIndex] =
                         [@ EXCEPT !.endSec = Max(@, item.endSec),
                                   !.notes = mergeNotes(@, item.notes)]])
               ELSE mergeFrom(sorted, k + 1, Append(out, newSpan(item)))

mergeBehaviors(xs) == mergeFrom(sortByStart(xs), 1, <<>>)

\* Spans given to mergeBehaviors: three keys (two of them differ only in the
\* modality), bounds that overlap, that lie exactly MERGE_GAP_SECONDS apart,
\* just beyond it, and far apart; notes on the spans of the first key.
InputBounds ==
  { <<0, 10000>>, <<5000, 60000>>, <<35000, 40000>>, <<35010, 50000>>,
    <<90000, 100000>> }
InputKeys ==
  { <<"hitting the therapist with hand", "visual">>, <<"screaming", "audio">>,
    <<"screaming", "visual">> }
InputNotes == { <<"a">>, <<"b">> }
InputSpans ==
  { Span(k[1], k[2], b[1], b[2], <<>>) : k \in InputKeys, b \in InputBounds }
    \cup { Span("hitting the therapist with hand", "visual", 0, 10000, n) : n \in InputNotes }
    \cup { Span("hitting the therapist with hand", "visual", 5000, 60000, n) : n \in InputNotes }
    \cup { Span("hitting the therapist with hand", "visual", 35000, 40000, <<"a">>) }
SpanLists == UNION { [1..n -> InputSpans] : n \in 0..MaxSpans }

PureIdle ==
  /\ purePc = "idle"
  /\ durationSec = 0
  /\ segments = <<>>
  /\ items = <<>>
  /\ merged = <<>>
  /\ remerged = <<>>

PureInit ==
  /\ segments = <<>>
  /\ merged = <<>>
  /\ remerged = <<>>
  /\ \/ purePc = "duration" /\ durationSec \in Durations /\ items = <<>>
     \/ purePc = "spans" /\ durationSec = 0 /\ items \in SpanLists

\* const segments = buildSegments(durationSec)
BuildSegments ==
  /\ UNCHANGED notPure
  /\ purePc = "duration"
  /\ segments' = buildSegments(durationSec)
  /\ purePc' = "segmented"
  /\ UNCHANGED <<durationSec, items, merged, remerged>>

\* mergeBehaviors(items)
MergeOnce ==
  /\ UNCHANGED notPure
  /\ purePc = "spans"
  /\ merged' = mergeBehaviors(items)
  /\ purePc' = "merged"
  /\ UNCHANGED <<durationSec, segments, items, remerged>>

\* mergeBehaviors applied to its own result
MergeTwice ==
  /\ UNCHANGED notPure
  /\ purePc = "merged"
  /\ remerged' = mergeBehaviors(merged)
  /\ purePc' = "remerged"
  /\ UNCHANGED <<durationSec, segments, items, merged>>

PureNext ==
  \/ BuildSegments
  \/ MergeOnce
  \/ MergeTwice


\* ------------------------------------------------------ runWithConcurrency
MaxItems == 4       \* items given to the pool

\* the pool of a stage has CONCURRENCY workers (NWorkers here)
PoolItemValues == {"a", "b"}
ItemLists == UNION { [1..n -> PoolItemValues] : n \in 0..MaxItems }

\* what the worker function resolves to for (item, index)
WorkerValue(item, i) == [item |-> item, index |-> i]
\* a slot of new Array(items.length) that was never assigned
EmptySlot == [item |-> "", index |-> -1]

\* items[i], with indices from 0
ItemAt(i) == poolItems[i + 1]

\* Math.min(limit, items.length) runNext calls are made
RunNexts == 1..Min(NWorkers, Len(poolItems))

PoolIdle ==
  /\ poolPc = "idle"
  /\ poolItems = <<>>
  /\ cursor = 0
  /\ results = <<>>
  /\ index = [k \in Workers |-> -1]
  /\ runPc = [k \in Workers |-> "idle"]
  /\ handed = <<>>
  /\ completed = <<>>
  /\ returned = <<>>

\* runWithConcurrency(items, limit, worker) is called
PoolInit ==
  /\ poolPc = "running"
  /\ poolItems \in ItemLists
  /\ cursor = 0
  /\ results = [i \in 0..(Len(poolItems) - 1) |-> EmptySlot]
  /\ index = [k \in Workers |-> -1]
  /\ runPc = [k \in Workers |-> "idle"]
  /\ handed = [i \in 0..(Len(poolItems) - 1) |-> 0]
  /\ completed = <<>>
  /\ returned = <<>>

\* a store that uses the shared cursor for the slot
resultSlot_cursor(idx, cur) == cur - 1

\* results[index] = ...: the slot is runNext's own index
resultSlot(idx, cur) == idx

\* const index = cursor; cursor += 1; if (index >= items.length) return;
\* ... worker(items[index], index): one turn of runNext's loop up to its await
TakeNext(k) ==
  /\ index' = [index EXCEPT ![k] = cursor]
  /\ cursor' = cursor + 1
  /\ IF cursor >= Len(poolItems)
       THEN /\ runPc' = [runPc EXCEPT ![k] = "returned"]
            /\ UNCHANGED handed
       ELSE /\ runPc' = [runPc EXCEPT ![k] = "awaiting"]
            /\ handed' = [handed EXCEPT ![cursor] = @ + 1]

\* Array.from({ length: ... }, () => runNext()): the runNext calls, in order
StartRunNext(k) ==
  /\ UNCHANGED notPool
  /\ poolPc = "running"
  /\ k \in RunNexts
  /\ runPc[k] = "idle"
  /\ \A j \in RunNexts : j < k => runPc[j] # "idle"
  /\ TakeNext(k)
  /\ UNCHANGED <<poolPc, poolItems, results, completed, returned>>

\* the worker call of runNext k resolves: the result is stored and the loop
\* goes round
WorkerResolves(k) ==
  /\ UNCHANGED notPool
  /\ poolPc = "running"
  /\ runPc[k] = "awaiting"
  /\ \A j \in RunNexts : runPc[j] # "idle"
  /\ results' = [results EXCEPT ![resultSlot(index[k], cursor)] =
                   WorkerValue(ItemAt(index[k]), index[k])]
  /\ completed' = Append(completed, index[k])
  /\ TakeNext(k)
  /\ UNCHANGED <<poolPc, poolItems, returned>>

\* await Promise.all(workers); return results;
PoolReturn ==
  /\ UNCHANGED notPool
  /\ poolPc = "running"
  /\ \A k \in RunNexts : runPc[k] = "returned"
  /\ poolPc' = "done"
  /\ returned' = results
  /\ UNCHANGED <<poolItems, cursor, results, index, runPc, handed, completed>>

PoolNext ==
  \/ PoolReturn
  \/ \E k \in Workers :
       \/ StartRunNext(k)
       \/ WorkerResolves(k)

\* ------------------------------------------------ analyzeVideo, the stages
VALIDATION_MARGIN_SECONDS == 30000
MIN_ACTION_DURATION_SECONDS == 8000

VISUAL_BEHAVIORS ==
  { "hitting the therapist with hand", "kicking the therapist with foot",
    "throwing objects", "non compliance", "pushing/shoving a person",
    "out of seat", "hand-flapping repeatedly", "body-rocking",
    "pulling or twirling hair" }
AUDIO_BEHAVIORS == {"crying", "screaming", "whimpering", "echolalia", "laughing"}
BEHAVIORS == VISUAL_BEHAVIORS \cup AUDIO_BEHAVIORS

\* String(x || "").toLowerCase().trim() on the strings of the responses
lowerTrim(text) ==
  CASE text = "Screaming " -> "screaming"
    [] text = " VISUAL" -> "visual"
    [] OTHER -> text

\* Math.min(max, Math.max(min, value))
clamp(value, min, max) == Min(max, Max(min, value))

\* a minimum-duration step that leaves the bounds as they are
enforceMinimumDuration_asGiven(startSec, endSec) ==
  [startSec |-> startSec, endSec |-> endSec]

\* enforceMinimumDuration on finite numbers
enforceMinimumDuration(startSec, endSec) ==
  IF endSec - startSec >= MIN_ACTION_DURATION_SECONDS
    THEN [startSec |-> startSec, endSec |-> endSec]
    ELSE [startSec |-> startSec, endSec |-> startSec + MIN_ACTION_DURATION_SECONDS]

MapSeq(xs, F(_)) == [i \in 1..Len(xs) |-> F(xs[i])]

RECURSIVE flat(_)
flat(lists) == IF lists = <<>> THEN <<>> ELSE Head(lists) \o flat(Tail(lists))

\* entries rounded to three decimals, as after both merges
roundBounds(entry) ==
  [entry EXCEPT !.startSec = Round3(@), !.endSec = Round3(@)]

\* What a policy-wrapped call of a detection unit ends in: SkipUnitError,
\* another error, a response that is no array, or an array.
RespHit == << Span("hitting the therapist with hand", " VISUAL", 10004, 30000, <<"a">>) >>
RespScream ==
  << Span("Screaming ", "", 20000, 22000, <<>>),
     Span("dancing", "visual", 50000, 90000, <<>>),
     Span("crying", "audio", 70000, 70000, <<>>),
     Span("throwing objects", "smell", 10000, 40000, <<>>) >>
\* an event in the last half second of a 20 s clip
RespLate == << Span("crying", "audio", 195000, 196000, <<>>) >>
\* an item whose endSec lies before its startSec
RespInverted == << Span("laughing", "audio", 90000, 60000, <<>>) >>
DetectionOutcomes ==
  { [kind |-> "skip", parsed |-> <<>>],
    [kind |-> "error", parsed |-> <<>>],
    [kind |-> "nonArray", parsed |-> <<>>],
    [kind |-> "array", parsed |-> RespHit],
    [kind |-> "array", parsed |-> RespScream],
    [kind |-> "array", parsed |-> RespLate],
    [kind |-> "array", parsed |-> RespInverted] }

\* a filter that lets any label and modality through
keepDetection_anyLabel(item) == item.endSec > item.startSec

\* the filter after the maps: a known label, a modality, a positive length
keepDetection(item) ==
  /\ item.behavior \in BEHAVIORS
  /\ item.modality \in {"visual", "audio"}
  /\ item.endSec > item.startSec

\* the chain of map and filter calls over an array response
normalizeDetections(parsed, segment) ==
  LET toGlobal(item) ==
        LET behavior == lowerTrim(item.behavior)
            inferredModality ==
              IF behavior \in VISUAL_BEHAVIORS THEN "visual"
              ELSE IF behavior \in AUDIO_BEHAVIORS THEN "audio" ELSE ""
            providedModality == lowerTrim(item.modality)
        IN  Span(behavior,
                 IF providedModality # "" THEN providedModality ELSE inferredModality,
                 item.startSec + segment.startSec,
                 item.endSec + segment.startSec,
                 item.notes)
      adjust(item) ==
        LET adjusted == enforceMinimumDuration(item.startSec, item.endSec)
        IN  [item EXCEPT !.startSec = adjusted.startSec, !.endSec = adjusted.endSec]
  IN  MapSeq(SelectSeq(MapSeq(MapSeq(parsed, toGlobal), adjust), keepDetection),
             roundBounds)

\* a catch block that lets errors other than SkipUnitError escape
detectionCatch_rethrow(kind) == [throws |-> kind # "skip", value |-> <<>>]

\* the catch block of the detection worker: `return []` on either branch
detectionCatch(kind) == [throws |-> FALSE, value |-> <<>>]

\* the worker function given to runWithConcurrency in the detection stage
detectionWorker(segment, o) ==
  CASE o.kind \in {"skip", "error"} -> detectionCatch(o.kind)
    [] o.kind = "nonArray" -> [throws |-> FALSE, value |-> <<>>]
    [] OTHER -> [throws |-> FALSE, value |-> normalizeDetections(o.parsed, segment)]

\* { ...item, correct, skipped, skipReason }; a field the code leaves out is
\* FALSE or ""
Entry(item, correct, skipped, skipReason) ==
  [behavior |-> item.behavior, modality |-> item.modality,
   startSec |-> item.startSec, endSec |-> item.endSec, notes |-> item.notes,
   correct |-> correct, skipped |-> skipped, skipReason |-> skipReason]

\* What the policy-wrapped calls of a validation unit end in: SkipUnitError,
\* another error, no object after the strict-JSON retry, or an object.
ValidationOutcomes ==
  { [kind |-> "skip", correct |-> FALSE, startSec |-> 0, endSec |-> 0],
    [kind |-> "error", correct |-> FALSE, startSec |-> 0, endSec |-> 0],
    [kind |-> "invalid", correct |-> FALSE, startSec |-> 0, endSec |-> 0],
    [kind |-> "object", correct |-> FALSE, startSec |-> 0, endSec |-> 0],
    [kind |-> "object", correct |-> TRUE, startSec |-> 35000, endSec |-> 49004],
    [kind |-> "object", correct |-> TRUE, startSec |-> 59000, endSec |-> 60000] }

\* a catch block that gives up the span whose validation was skipped
validationCatch_dropped(item, kind) ==
  [throws |-> FALSE,
   value |-> Entry(item, FALSE, TRUE, "validation_skipped_assumed_true")]

\* the catch block of the validation worker
validationCatch(item, kind) ==
  [throws |-> FALSE,
   value |-> Entry(item, TRUE, TRUE,
                   IF kind = "skip" THEN "validation_skipped_assumed_true"
                                    ELSE "validation_failed_assumed_true")]

\* the refined bounds of a span the validator found correct
refine(item, o, d) ==
  LET localStart == Max(0, item.startSec - VALIDATION_MARGIN_SECONDS)
      localEnd == Min(d, item.endSec + VALIDATION_MARGIN_SECONDS)
      refinedStartGlobal == clamp(localStart + o.startSec, localStart, localEnd)
      refinedEndGlobal == clamp(localStart + o.endSec, refinedStartGlobal + 100, localEnd)
      adjusted == enforceMinimumDuration(refinedStartGlobal, refinedEndGlobal)
  IN  [Entry(item, TRUE, FALSE, "")
         EXCEPT !.startSec = Round3(adjusted.startSec),
                !.endSec = Round3(adjusted.endSec)]

\* the worker function given to runWithConcurrency in the validation stage
validationWorker(item, o, d) ==
  CASE o.kind \in {"skip", "error"} -> validationCatch(item, o.kind)
    [] o.kind = "invalid" ->
         [throws |-> FALSE,
          value |-> Entry(item, FALSE, TRUE, "invalid_validation_payload")]
    [] o.kind = "object" /\ ~o.correct ->
         [throws |-> FALSE, value |-> Entry(item, FALSE, FALSE, "")]
    [] OTHER -> [throws |-> FALSE, value |-> refine(item, o, d)]

\* a slot of validatedEntries that was never assigned
NoEntry == Entry(Span("", "", 0, 0, <<>>), FALSE, FALSE, "")

\* videos of one window and of two windows
VideoDurations == {200000, 450000}

\* generationConfig.temperature of the primary calls, in tenths
TEMPERATURE == 4

\* the request of a policy-wrapped call of a detection unit, and what the
\* call ended in ("" while it is awaited)
PrimaryRequest == [temperature |-> TEMPERATURE, reminder |-> FALSE, outcome |-> ""]
FallbackRequest == [temperature |-> 0, reminder |-> TRUE, outcome |-> ""]

AnalyzeIdle ==
  /\ stage = "idle"
  /\ detectOutcome = <<>>
  /\ detectCalls = <<>>
  /\ detectionsBySegment = <<>>
  /\ rawDetections = <<>>
  /\ mergedBeforeValidation = <<>>
  /\ validateOutcome = <<>>
  /\ validatedEntries = <<>>
  /\ validatedOnly = <<>>
  /\ artifacts = {}
  /\ raisedBy = ""
  /\ fileClock = 0 /\ fileDeadline = 0 /\ fileState = ""

\* analyzeVideo at the start of its detection stage
AnalyzeInit ==
  /\ stage = "detect"
  /\ fileClock = 0 /\ fileDeadline = FILE_READY_TIMEOUT_MS /\ fileState = "ACTIVE"
  /\ purePc = "idle" /\ items = <<>> /\ remerged = <<>> /\ merged = <<>>
  /\ durationSec \in VideoDurations
  /\ segments = buildSegments(durationSec)
  /\ detectOutcome = [i \in 1..Len(segments) |-> "pending"]
  /\ detectCalls = [i \in 1..Len(segments) |-> <<PrimaryRequest>>]
  /\ detectionsBySegment = [i \in 1..Len(segments) |-> <<>>]
  /\ rawDetections = <<>>
  /\ mergedBeforeValidation = <<>>
  /\ validateOutcome = <<>>
  /\ validatedEntries = <<>>
  /\ validatedOnly = <<>>
  /\ artifacts = {}
  /\ raisedBy = ""

\* a pool that returns while units are still pending
poolReturned_early(outcomes) == TRUE

\* `await Promise.all(workers)` of runWithConcurrency is over: every unit of
\* the stage has settled
poolReturned(outcomes) ==
  \A i \in DOMAIN outcomes : outcomes[i] \notin {"pending", "fallback"}

\* a unit that never asks again
fallbackDue_never(kind, awaiting) == FALSE

\* `!Array.isArray(parsed)` after the first response
fallbackDue(kind, awaiting) == kind = "nonArray" /\ awaiting = "pending"

\* a policy-wrapped call of the detection worker of segment i settles: after
\* the first, a response that is no array makes the worker issue the fallback
\* call; otherwise the worker settles, and a throw rejects the pool
DetectUnit(i, o) ==
  /\ UNCHANGED notAnalyze
  /\ stage = "detect"
  /\ detectOutcome[i] \in {"pending", "fallback"}
  /\ LET answered == [detectCalls[i] EXCEPT ![Len(detectCalls[i])].outcome = o.kind]
         r == detectionWorker(segments[i], o)
     IN  IF fallbackDue(o.kind, detectOutcome[i])
           THEN /\ detectCalls' = [detectCalls EXCEPT ![i] = Append(answered, FallbackRequest)]
                /\ detectOutcome' = [detectOutcome EXCEPT ![i] = "fallback"]
                /\ UNCHANGED <<stage, raisedBy, detectionsBySegment>>
           ELSE /\ detectCalls' = [detectCalls EXCEPT ![i] = answered]
                /\ detectOutcome' = [detectOutcome EXCEPT ![i] = o.kind]
                /\ IF r.throws
                     THEN /\ stage' = "raised"
                          /\ raisedBy' = "unit"
                          /\ UNCHANGED detectionsBySegment
                     ELSE /\ detectionsBySegment' =
                               [detectionsBySegment EXCEPT ![i] = r.value]
                          /\ UNCHANGED <<stage, raisedBy>>
  /\ UNCHANGED <<durationSec, segments, merged, rawDetections,
                 mergedBeforeValidation, validateOutcome, validatedEntries,
                 validatedOnly, artifacts>>

\* the detection pool has returned: flatten, write behaviors_raw.json, merge
StartValidation ==
  /\ UNCHANGED notAnalyze
  /\ stage = "detect"
  /\ poolReturned(detectOutcome)
  /\ rawDetections' = flat(detectionsBySegment)
  /\ artifacts' = artifacts \cup {"behaviors_raw.json"}
  /\ mergedBeforeValidation' = MapSeq(mergeBehaviors(rawDetections'), roundBounds)
  /\ validateOutcome' = [i \in 1..Len(mergedBeforeValidation') |-> "pending"]
  /\ validatedEntries' = [i \in 1..Len(mergedBeforeValidation') |-> NoEntry]
  /\ stage' = "validate"
  /\ UNCHANGED <<durationSec, segments, merged, detectOutcome, detectCalls,
                 detectionsBySegment, validatedOnly, raisedBy>>

\* the validation worker of merged span i settles
ValidateUnit(i, o) ==
  /\ UNCHANGED notAnalyze
  /\ stage = "validate"
  /\ validateOutcome[i] = "pending"
  /\ validateOutcome' = [validateOutcome EXCEPT ![i] = o.kind]
  /\ LET r == validationWorker(mergedBeforeValidation[i], o, durationSec)
     IN  IF r.throws
           THEN /\ stage' = "raised"
                /\ raisedBy' = "unit"
                /\ UNCHANGED validatedEntries
           ELSE /\ validatedEntries' = [validatedEntries EXCEPT ![i] = r.value]
                /\ UNCHANGED <<stage, raisedBy>>
  /\ UNCHANGED <<durationSec, segments, merged, detectOutcome, detectCalls,
                 detectionsBySegment, rawDetections, mergedBeforeValidation,
                 validatedOnly, artifacts>>

\* the validation pool has returned: filter, merge again, write the
\* artifacts, burn the subtitles (which may fail) and return
Emit(burned) ==
  /\ UNCHANGED notAnalyze
  /\ stage = "validate"
  /\ poolReturned(validateOutcome)
  /\ validatedOnly' = SelectSeq(validatedEntries, LAMBDA entry : entry.correct)
  /\ merged' = MapSeq(mergeBehaviors(validatedOnly'), roundBounds)
  /\ artifacts' = artifacts \cup
                    {"behaviors_validated.json", "behaviors_final.json", "behaviors.srt"}
                    \cup (IF burned THEN {"video_with_behaviors.mp4"} ELSE {})
  /\ stage' = IF burned THEN "done" ELSE "raised"
  /\ raisedBy' = IF burned THEN "" ELSE "burnSubtitles"
  /\ UNCHANGED <<durationSec, segments, detectOutcome, detectCalls, detectionsBySegment,
                 rawDetections, mergedBeforeValidation, validateOutcome,
                 validatedEntries>>

AnalyzeNext ==
  \/ \E i \in DOMAIN detectOutcome, o \in DetectionOutcomes : DetectUnit(i, o)
  \/ StartValidation
  \/ \E i \in DOMAIN validateOutcome, o \in ValidationOutcomes : ValidateUnit(i, o)
  \/ \E burned \in BOOLEAN : Emit(burned)

\* --------------------------------------- analyzeVideo, upload and readiness
POLL_INTERVAL_MS == 1000
FileStates == {"PROCESSING", "ACTIVE", "FAILED"}
\* how long a files.get that settles takes; the call timeout ends the others
GetLatencies == {0, POLL_INTERVAL_MS}

\* a readiness test that takes any state but PROCESSING
fileIsActive_notProcessing(state) == TRUE

\* file.state !== "ACTIVE", negated
fileIsActive(state) == state = "ACTIVE"

\* analyzeVideo about to upload its input
ReadyInit ==
  /\ stage = "upload"
  /\ detectOutcome = <<>>
  /\ detectCalls = <<>>
  /\ detectionsBySegment = <<>>
  /\ rawDetections = <<>>
  /\ mergedBeforeValidation = <<>>
  /\ validateOutcome = <<>>
  /\ validatedEntries = <<>>
  /\ validatedOnly = <<>>
  /\ artifacts = {}
  /\ raisedBy = ""
  /\ fileClock = 0 /\ fileDeadline = 0 /\ fileState = ""

\* analyzeVideo rejects with the error of `what`
Raise(what) ==
  /\ stage' = "raised"
  /\ raisedBy' = what
  /\ UNCHANGED <<durationSec, segments, detectOutcome, detectCalls, detectionsBySegment>>

\* ai.files.upload settles or times out; waitForFileReady sets its deadline
\* and issues the first files.get
UploadSettles(ok) ==
  /\ UNCHANGED notReady
  /\ stage = "upload"
  /\ UNCHANGED <<fileClock, fileState, merged, rawDetections,
                 mergedBeforeValidation, validateOutcome, validatedEntries,
                 validatedOnly, artifacts>>
  /\ IF ok
       THEN /\ fileDeadline' = fileClock + FILE_READY_TIMEOUT_MS
            /\ stage' = "get"
            /\ UNCHANGED <<raisedBy, durationSec, segments, detectOutcome, detectCalls,
                           detectionsBySegment>>
       ELSE /\ Raise("file-upload")
            /\ UNCHANGED fileDeadline

\* a files.get resolves with the file in `state`: the loop test, the
\* deadline test, the test for ACTIVE, and on return the steps up to the
\* start of the detection stage
GetSettles(state, latency) ==
  /\ UNCHANGED notReady
  /\ stage = "get"
  /\ fileClock' = fileClock + latency
  /\ fileState' = state
  /\ UNCHANGED <<fileDeadline, merged, rawDetections, mergedBeforeValidation,
                 validateOutcome, validatedEntries, validatedOnly, artifacts>>
  /\ IF state = "PROCESSING"
       THEN IF fileClock' > fileDeadline
              THEN Raise("stayed PROCESSING")
              ELSE /\ stage' = "sleep"
                   /\ UNCHANGED <<raisedBy, durationSec, segments, detectOutcome, detectCalls,
                                  detectionsBySegment>>
       ELSE IF ~fileIsActive(state)
              THEN Raise("not ACTIVE")
              ELSE /\ stage' = "detect"
                   /\ durationSec' \in VideoDurations
                   /\ segments' = buildSegments(durationSec')
                   /\ detectOutcome' = [i \in 1..Len(segments') |-> "pending"]
                   /\ detectCalls' = [i \in 1..Len(segments') |-> <<PrimaryRequest>>]
                   /\ detectionsBySegment' = [i \in 1..Len(segments') |-> <<>>]
                   /\ UNCHANGED raisedBy

\* a files.get rejects, or the call timeout wins the race
GetFails(timedOut) ==
  /\ UNCHANGED notReady
  /\ stage = "get"
  /\ fileClock' = fileClock + (IF timedOut THEN GEMINI_CALL_TIMEOUT_MS ELSE 0)
  /\ Raise("file-get")
  /\ UNCHANGED <<fileDeadline, fileState, merged, rawDetections,
                 mergedBeforeValidation, validateOutcome, validatedEntries,
                 validatedOnly, artifacts>>

\* sleep(1000) is over: the next files.get is issued
SleepWake ==
  /\ UNCHANGED notReady
  /\ stage = "sleep"
  /\ fileClock' = fileClock + POLL_INTERVAL_MS
  /\ stage' = "get"
  /\ UNCHANGED <<fileDeadline, fileState, raisedBy, durationSec, segments, merged,
                 detectOutcome, detectCalls, detectionsBySegment, rawDetections,
                 mergedBeforeValidation, validateOutcome, validatedEntries,
                 validatedOnly, artifacts>>

ReadyNext ==
  \/ \E ok \in BOOLEAN : UploadSettles(ok)
  \/ \E state \in FileStates, latency \in GetLatencies : GetSettles(state, latency)
  \/ \E timedOut \in BOOLEAN : GetFails(timedOut)
  \/ SleepWake

vars == <<jobVars, policyVars, stageVars>>

\* The job processor behind the push endpoint.
Init == JobInit /\ PolicyInit /\ PureIdle /\ PoolIdle /\ AnalyzeIdle
Next == JobNext
Spec == Init /\ [][Next]_vars

\* A delivery for a video whose session is Awaiting, with an external
\* writer of the session record.
EditStart ==
  /\ JobInit /\ PolicyInit /\ PureIdle /\ PoolIdle /\ AnalyzeIdle
  /\ eventType = "OBJECT_FINALIZE"
  /\ objectName = VideoName
  /\ sourceExists
  /\ sessions = (SessionPath("icd-a", "1234.json")
                   :> SessionRecord("Awaiting", NoPath, NoPath, "", 0, 0, VideoName))
                @@ (SessionPath("icd-a", "legacy.json") :> NoFile)
EditNext ==
  \/ JobNext
  \/ ExternalEdit(SessionPath("icd-a", "1234.json"))
SpecEdit == EditStart /\ [][EditNext]_vars

\* The same event delivered again before the first delivery has finished,
\* for a video whose session is Awaiting, with an external writer of the
\* session record.
DupStart ==
  /\ JobFresh(NJobs + NDuplicates) /\ PolicyInit /\ PureIdle /\ PoolIdle /\ AnalyzeIdle
  /\ eventType = "OBJECT_FINALIZE"
  /\ objectName = VideoName
  /\ sourceExists
  /\ sessions = (SessionPath("icd-a", "1234.json")
                   :> SessionRecord("Awaiting", NoPath, NoPath, "", 0, 0, VideoName))
                @@ (SessionPath("icd-a", "legacy.json") :> NoFile)
SpecDup == DupStart /\ [][EditNext]_vars

\* A request arriving at the HTTP server, with any method, path,
\* Authorization header and token configuration.
ServerStart ==
  /\ PolicyInit /\ PureIdle /\ PoolIdle /\ AnalyzeIdle
  /\ method \in {"GET", "POST"}
  /\ url \in {"/healthz", "/pubsub/storage-finalize", "/"}
  /\ authorization \in Headers
  /\ workerToken \in {"", "secret"}
  /\ eventType \in {"OBJECT_FINALIZE", "OBJECT_DELETE"}
  /\ objectName = VideoName
  /\ sessions = (SessionPath("icd-a", "1234.json")
                   :> SessionRecord("Awaiting", NoPath, NoPath, "", 0, 0, VideoName))
                @@ (SessionPath("icd-a", "legacy.json") :> NoFile)
  /\ sourceExists = TRUE
  /\ objects = {}
  /\ failures = 0
  /\ pc = [j \in Jobs |-> IF j <= NJobs THEN "arrived" ELSE "absent"]
  /\ recordPath = [j \in Jobs |-> NoPath]
  /\ session = [j \in Jobs |-> NoSession]
  /\ error = [j \in Jobs |-> ""]
  /\ tmpRoot = [j \in Jobs |-> "none"]
  /\ pendingUploads = [j \in Jobs |-> {}]
  /\ analyzerRuns = [j \in Jobs |-> 0]
  /\ written = [j \in Jobs |-> <<>>]
  /\ response = [j \in Jobs |-> NoResponse]
  /\ edited = FALSE
ServerNext ==
  \/ \E j \in Jobs : HandleRequest(j)
  \/ JobNext
SpecServer == ServerStart /\ [][ServerNext]_vars

\* A job that has reached its analyzeVideo call.
JobAnalyzing ==
  /\ eventType = "OBJECT_FINALIZE"
  /\ objectName = VideoName
  /\ sessions = (SessionPath("icd-a", "1234.json")
                   :> SessionRecord("Processing", NoPath, NoPath, "", 0, 1, VideoName))
                @@ (SessionPath("icd-a", "legacy.json") :> NoFile)
  /\ sourceExists = TRUE
  /\ objects = {}
  /\ failures = 0
  /\ pc = [j \in Jobs |-> IF j <= NJobs THEN "analyze" ELSE "absent"]
  /\ recordPath = [j \in Jobs |-> SessionPath("icd-a", "1234.json")]
  /\ session = [j \in Jobs |-> sessions[SessionPath("icd-a", "1234.json")]]
  /\ error = [j \in Jobs |-> ""]
  /\ tmpRoot = [j \in Jobs |-> "created"]
  /\ pendingUploads = [j \in Jobs |-> {}]
  /\ analyzerRuns = [j \in Jobs |-> 0]
  /\ written = [j \in Jobs |-> <<"Processing">>]
  /\ response = [j \in Jobs |-> NoResponse]
  /\ edited = FALSE
  /\ RequestAccepted

\* Pool workers issuing policy-wrapped calls against one rate controller.
PolicyStart == PolicyInit /\ JobAnalyzing /\ PureIdle /\ PoolIdle /\ AnalyzeIdle
SpecPolicy == PolicyStart /\ [][PolicyNext]_vars

\* buildSegments and mergeBehaviors applied to bounded inputs.
PureStart == PureInit /\ JobAnalyzing /\ PolicyInit /\ PoolIdle /\ AnalyzeIdle
SpecPure == PureStart /\ [][PureNext]_vars

\* runWithConcurrency over bounded item lists, with any completion order.
PoolStart == PoolInit /\ JobAnalyzing /\ PolicyInit /\ PureIdle /\ AnalyzeIdle
SpecPool == PoolStart /\ [][PoolNext]_vars

\* The detection and validation stages of analyzeVideo, with any outcome of
\* each unit and any completion order.
AnalyzeStart == AnalyzeInit /\ JobAnalyzing /\ PolicyInit /\ PoolIdle
SpecAnalyze == AnalyzeStart /\ [][AnalyzeNext]_vars

\* The calls of one pool worker against a service that fails often enough
\* to spend both budgets of a call; timers fire and requests settle.
CallStart == CallInit /\ JobAnalyzing /\ PureIdle /\ PoolIdle /\ AnalyzeIdle
SpecCall == CallStart /\ [][PolicyNext]_vars /\ WF_vars(PolicyNext)

\* The upload of the analysis input and the wait for the file to be ready;
\* every awaited call settles or is cut off by its timeout.
ReadyStart == ReadyInit /\ JobAnalyzing /\ PolicyInit /\ PureIdle /\ PoolIdle
SpecReady == ReadyStart /\ [][ReadyNext]_vars /\ WF_vars(ReadyNext)

\* ================================================================ claims
\* The statuses and fields a claim speaks of, written out from the claim.
GateHolds(r) ==
  /\ r.status = "Pending review" \/ r.status = "Reviewed"
  /\ r.analysisJsonPath # NoPath
  /\ r.processedVideoPath # NoPath

\* job j takes the step that reads the session at the gate, and the read
\* returns a record
ReadsRecord(j) ==
  /\ pc[j] = "read" /\ pc'[j] # "read"
  /\ failures' = failures
  /\ "status" \in DOMAIN sessions[recordPath[j]]

Untouched(j) ==
  /\ written[j] = <<>>
  /\ analyzerRuns[j] = 0
  /\ pendingUploads[j] = {}
  /\ tmpRoot[j] = "none"

\* C1  Idempotency gate: a job that reads a record whose status is Pending
\* review or Reviewed and whose two artifact paths are set answers
\* already_processed, and that job writes no session record, uploads no
\* artifact and never calls the analyzer; storage is the same before and after.
C1_IdempotencyGate ==
  /\ [][\A j \in Jobs :
          (ReadsRecord(j) /\ GateHolds(sessions[recordPath[j]]))
            => /\ response'[j] = [code |-> 200, reason |-> "already_processed"]
               /\ pc'[j] = "done"
               /\ sessions' = sessions
               /\ objects' = objects]_vars
  /\ [](\A j \in Jobs : response[j].reason = "already_processed" => Untouched(j))

C1_Witness ==
  \E j \in Jobs :
    /\ response[j].reason = "already_processed"
    /\ sessions[recordPath[j]].status = "Reviewed"

\* C2 (as claimed)  Every status write of a job takes the record along
\* Awaiting|Processing -> Processing -> {Pending review, Failed}.
C2_OnlyClaimedTransitions ==
  [][\A j \in Jobs :
       written'[j] # written[j]
         => <<sessions[recordPath[j]].status, sessions'[recordPath[j]].status>>
              \in { <<"Awaiting", "Processing">>, <<"Processing", "Processing">>,
                    <<"Processing", "Pending review">>, <<"Processing", "Failed">> }]_vars

\* C2 (amended)  The statuses one job writes are, in order, Processing and
\* then Pending review or Failed (never Awaiting, never Processing after
\* Pending review), and the record the job read before writing Processing is
\* one the gate does not suppress.
C2_WrittenSequence ==
  [][\A j \in Jobs :
       written'[j] # written[j]
         => /\ written'[j] \in { <<"Processing">>,
                                 <<"Processing", "Pending review">>,
                                 <<"Processing", "Failed">> }
            /\ Len(written'[j]) = 1 => ~GateHolds(session[j])]_vars

C2_Witness ==
  \E j \in Jobs :
    /\ written[j] = <<"Processing", "Pending review">>
    /\ session[j].failedAt # 0

\* C3  Artifact integrity: the artifact paths a session record carries name
\* objects that exist, and a job has written Pending review only after its
\* four uploads have completed.
C3_ArtifactIntegrity ==
  /\ \A p \in DOMAIN sessions :
       "status" \in DOMAIN sessions[p]
         => /\ sessions[p].analysisJsonPath # NoPath
                 => sessions[p].analysisJsonPath \in objects
            /\ sessions[p].processedVideoPath # NoPath
                 => sessions[p].processedVideoPath \in objects
  /\ \A j \in Jobs :
       (written[j] # <<>> /\ Last(written[j]) = "Pending review")
         => /\ pendingUploads[j] = {}
            /\ \A a \in Artifacts :
                 ArtifactPath(objectName[3], safeUploadEpoch(objectName), a) \in objects

C3_Witness ==
  \E j \in Jobs :
    /\ response[j] = [code |-> 200, reason |-> "ok"]
    /\ sessions[recordPath[j]].status = "Pending review"
    /\ sessions[recordPath[j]].processedVideoPath \in objects

\* C4  Failure transition: a job that has started step 5 (it holds the record
\* it read past the gate) and ends by raising has written Failed last, with
\* failedAt and the error message, and the caller sees that error.
C4_FailureTransition ==
  \A j \in Jobs :
    (pc[j] = "done" /\ response[j].code = 500 /\ session[j] # NoSession)
      => /\ written[j] # <<>>
         /\ Last(written[j]) = "Failed"

\* C5  Missing session: when neither the record named after the epoch nor a
\* record whose storagePath is the object name exists, the job raises, the
\* adapter answers 500, and the job writes no session and calls no analyzer.
NothingToResolve ==
  /\ \/ parseUploadEpochFromObjectPath(objectName) = ""
     \/ sessions[SessionPath(objectName[3],
                   EpochFile(parseUploadEpochFromObjectPath(objectName)))] = NoFile
  /\ \A p \in DOMAIN sessions :
       "status" \in DOMAIN sessions[p] => sessions[p].storagePath # objectName

C5_MissingSession ==
  /\ [][\A j \in Jobs :
          (pc[j] = "resolve" /\ pc'[j] # "resolve" /\ NothingToResolve)
            => /\ pc'[j] = "done"
               /\ response'[j].code = 500
               /\ sessions' = sessions]_vars
  /\ [](\A j \in Jobs :
          response[j].reason = "Session record not found"
            => response[j].code = 500 /\ Untouched(j) /\ session[j] = NoSession)

C5_Witness ==
  \E j \in Jobs :
    /\ response[j] = [code |-> 500, reason |-> "Session record not found"]
    /\ \E p \in DOMAIN sessions : sessions[p] # NoFile

\* C6  Event filtering: an event that is not a finalize event, or whose
\* object is not under carecam/child_videos/ or names a directory, is
\* answered 200 "ignored" and its delivery never reads or writes a session,
\* runs the analyzer or uploads.
FilteredEvent ==
  \/ eventType \notin {"OBJECT_FINALIZE", "object_finalize"}
  \/ Len(objectName) < 3
  \/ objectName[1] # "carecam" \/ objectName[2] # "child_videos"
  \/ objectName[Len(objectName)] = ""

Caught(w) == caught'.worker = w

RateLimited(e) ==
  e.status = 429 \/ e.code = 429 \/ e.message = "RESOURCE_EXHAUSTED"

Transient(e) ==
  /\ ~RateLimited(e)
  /\ \/ e.status >= 500
     \/ e.message \in {"Service Unavailable", "Deadline exceeded",
                       "timed out after 120000ms"}

\* a finished call makes no further attempt (a new call starts from 0)
Finished(w) ==
  wpc[w] = "skipped"
    => \/ attempts'[w] = attempts[w] /\ wpc'[w] = "skipped"
       \/ calls' = calls + 1


\* C7  Two-strike throttling: in one call the first rate-limit error
\* triggers the global pause and the call goes on to wait and retry; the
\* second raises SkipUnit with no pause triggered and no further attempt.
C7_TwoStrikes ==
  [][\A w \in Workers :
       /\ (Caught(w) /\ RateLimited(caught'.error))
            => IF rateLimitErrors[w] = 0
                 THEN /\ triggers'[w] = triggers[w] + 1
                      /\ pauseUntil' >= GLOBAL_RATE_LIMIT_PAUSE_MS
                      /\ wpc'[w] = "blockedTrigger"
                      /\ currentPausePromise' # NoTimer
                 ELSE /\ wpc'[w] = "skipped"
                      /\ skipMessage'[w] = "Skipped after second rate-limit event."
                      /\ triggers'[w] = triggers[w]
                      /\ pauseUntil' = pauseUntil
                      /\ currentPausePromise' = currentPausePromise
       /\ Finished(w)]_vars

C7_Witness ==
  \E w \in Workers :
    /\ wpc[w] = "skipped"
    /\ rateLimitErrors[w] = 2
    /\ triggers[w] = 1
    /\ attempts[w] = 2

\* C8  Transient retry budget: in one call a retryable error that is not a
\* rate-limit error is followed by the fixed retry wait (and then a new
\* attempt) while fewer than 3 retries were made; after 3 retries it raises
\* SkipUnit carrying that error's message.
C8_TransientBudget ==
  [][\A w \in Workers :
       (Caught(w) /\ Transient(caught'.error))
         => IF transientRetryCount[w] < 3
              THEN /\ wpc'[w] = "retrySleep"
                   /\ sleepUntil'[w] = 60000
                   /\ transientRetryCount'[w] = transientRetryCount[w] + 1
              ELSE /\ wpc'[w] = "skipped"
                   /\ skipMessage'[w] = caught'.error.message
                   /\ transientRetryCount'[w] = 3]_vars

C8_Witness ==
  \E w \in Workers :
    /\ wpc[w] = "skipped"
    /\ transientRetryCount[w] = 3
    /\ attempts[w] = 4
    /\ skipMessage[w] = "Service Unavailable"

\* C9  Non-retryable errors: an error that is neither rate-limit nor
\* retryable raises SkipUnit at once: no retry wait, no pause, and the thunk
\* is not invoked again.
C9_NonRetryable ==
  [][\A w \in Workers :
       /\ (Caught(w) /\ caught'.error = ApiError(400, 0, "Bad Request"))
            => /\ wpc'[w] = "skipped"
               /\ skipMessage'[w] = "Bad Request"
               /\ sleepUntil'[w] = sleepUntil[w]
               /\ transientRetryCount'[w] = transientRetryCount[w]
               /\ triggers'[w] = triggers[w]
               /\ pauseUntil' = pauseUntil
               /\ currentPausePromise' = currentPausePromise
       /\ Finished(w)]_vars

C9_Witness ==
  \E w \in Workers :
    /\ wpc[w] = "skipped"
    /\ caught = [worker |-> w, error |-> ApiError(400, 0, "Bad Request")]
    /\ attempts[w] = 1

\* C10  Pause deadline monotonicity: pauseUntil never decreases.  With the
\* deadline held as the time left until it: a triggerPause sets it to
\* max(pauseUntil, now + 5 minutes), the passing of time alone shortens the
\* time left, and every other step (waitIfPaused, the expiry of the shared
\* sleep) leaves it unchanged.
C10_DeadlineMonotonic ==
  [][IF \E w \in Workers : triggers'[w] = triggers[w] + 1
       THEN pauseUntil' = Max(pauseUntil, 5 * 60 * 1000)
       ELSE \/ pauseUntil' = pauseUntil
            \/ Tick]_vars

C10_Witness ==
  /\ pauseUntil = 5 * 60 * 1000
  /\ currentPausePromise = 60000
  /\ \A w \in Workers : triggers[w] = 1

\* ------------------------------------------- claims on the pause barrier
Waiting(st) == st \in {"blocked", "blockedTrigger"}

\* C11  Pause barrier: waitIfPaused returns only when now >= pauseUntil, so
\* callWithPolicy never invokes its thunk while now < pauseUntil of the shared
\* controller, whatever triggerPause calls other workers make while waiters
\* are waiting.
C11_PauseBarrier ==
  [][\A w \in Workers :
       /\ (wpc[w] = "blocked" /\ wpc'[w] = "ready") => pauseUntil' = 0
       /\ attempts'[w] = attempts[w] + 1 => pauseUntil = 0]_vars

\* C12  Rate-pause unification: at most one pause timer (pending shared
\* sleep) exists at any time, every worker that waits in waitIfPaused waits
\* on that one timer, and all of them resume when it expires.
C12_PauseUnification ==
  [][/\ pauseSleeps' <= 1
     /\ \A w \in Workers :
          Waiting(wpc'[w]) => pauseSleeps' = 1 /\ currentPausePromise' # NoTimer
     /\ pauseSleeps' < pauseSleeps
          => \A w \in Workers : Waiting(wpc[w]) => wpc'[w] \in {"ready", "loop"}]_vars

\* a single 429 so far, and two workers waiting on the one timer, one of them
\* having reached waitIfPaused at the loop top during the pause
C12_Witness ==
  /\ pauseSleeps = 1
  /\ Cardinality({w \in Workers : rateLimitErrors[w] = 1}) = 1
  /\ \A w \in Workers : rateLimitErrors[w] <= 1
  /\ \E v, w \in Workers :
       wpc[v] = "blockedTrigger" /\ wpc[w] = "blocked" /\ rateLimitErrors[w] = 0

\* requests issued and not yet settled: those awaited and those abandoned
InFlight == Cardinality({w \in Workers : wpc[w] = "inflight"}) + orphans

\* C14  Bounded parallelism: at most as many inference requests as the pool
\* has workers (CONCURRENCY, 5 in the source) are in flight at any time, for
\* any pattern of timeouts and retries.
C14_BoundedParallelism == InFlight <= NWorkers

\* ------------------------------ claims on buildSegments and mergeBehaviors
\* the multiple of 1 ms nearest to x
NearestMs(r, x) == r % 10 = 0 /\ r - x <= 5 /\ x - r <= 5

\* C18 (as stated)  Segmentation: for every duration D > 0 the windows start
\* at 0, successive starts advance by 26 s, each window has length 30 s
\* truncated at D, the last window ends exactly at D, the union covers [0, D)
\* with no gap, and D = 45 gives exactly (0, 30) and (26, 45).
C18_Segmentation ==
  purePc = "segmented" =>
    /\ Len(segments) >= 1
    /\ segments[1].startSec = 0
    /\ \A i \in 1..Len(segments) :
         /\ segments[i].startSec = (i - 1) * 260000
         /\ segments[i].endSec = Min(segments[i].startSec + 300000, durationSec)
    /\ \A i \in 2..Len(segments) : segments[i].startSec <= segments[i - 1].endSec
    /\ segments[Len(segments)].endSec = durationSec
    /\ durationSec = 450000
         => segments = << [startSec |-> 0, endSec |-> 300000],
                          [startSec |-> 260000, endSec |-> 450000] >>

\* C18 (amended)  Segmentation: as above, with every bound rounded to three
\* decimals: window i ends at min(start + 30, D) rounded to 1 ms, the last
\* window ends at D rounded to 1 ms (at D itself when D is a whole number of
\* milliseconds), and the planner stops at the first window that reaches D.
C18_SegmentationRounded ==
  purePc = "segmented" =>
    /\ Len(segments) >= 1
    /\ segments[1].startSec = 0
    /\ \A i \in 1..Len(segments) :
         /\ segments[i].startSec = (i - 1) * 260000
         /\ NearestMs(segments[i].endSec,
                      Min(segments[i].startSec + 300000, durationSec))
    /\ \A i \in 2..Len(segments) : segments[i].startSec <= segments[i - 1].endSec
    /\ NearestMs(segments[Len(segments)].endSec, durationSec)
    /\ durationSec % 10 = 0 => segments[Len(segments)].endSec = durationSec
    /\ segments[Len(segments)].startSec < durationSec
    /\ \A i \in 1..(Len(segments) - 1) : segments[i].startSec + 300000 < durationSec
    /\ durationSec = 450000
         => segments = << [startSec |-> 0, endSec |-> 300000],
                          [startSec |-> 260000, endSec |-> 450000] >>

\* a duration with a fraction of a millisecond, planned into two windows
C18_Witness ==
  /\ purePc = "segmented"
  /\ durationSec = 450004
  /\ Len(segments) = 2
  /\ segments[2] = [startSec |-> 260000, endSec |-> 450000]

\* C19  Post-merge separation: in the output of mergeBehaviors no two spans
\* with the same (behavior, modality) key have later.startSec <=
\* earlier.endSec + 2.5 s.
C19_PostMergeSeparation ==
  purePc \in {"merged", "remerged"} =>
    \A i, j \in 1..Len(merged) :
      (/\ i # j
       /\ merged[i].behavior = merged[j].behavior
       /\ merged[i].modality = merged[j].modality
       /\ merged[i].startSec <= merged[j].startSec)
        => merged[j].startSec > merged[i].endSec + 25000

\* three spans of one key: two were joined, the third stands apart
C19_Witness ==
  /\ purePc = "merged"
  /\ Len(items) = 3
  /\ Len(merged) = 2
  /\ merged[1].behavior = merged[2].behavior
  /\ merged[1].modality = merged[2].modality
  /\ merged[1].endSec = 40000

\* C20  Merge idempotence: mergeBehaviors(mergeBehaviors(xs)) equals
\* mergeBehaviors(xs) element by element: same length, order, keys, startSec,
\* endSec and notes.
C20_MergeIdempotence ==
  purePc = "remerged" =>
    /\ Len(remerged) = Len(merged)
    /\ \A i \in 1..Len(merged) :
         /\ remerged[i].behavior = merged[i].behavior
         /\ remerged[i].modality = merged[i].modality
         /\ remerged[i].startSec = merged[i].startSec
         /\ remerged[i].endSec = merged[i].endSec
         /\ remerged[i].notes = merged[i].notes

\* a result of two spans, one of them joined from two inputs with notes
C20_Witness ==
  /\ purePc = "remerged"
  /\ Len(items) = 3
  /\ Len(merged) = 2
  /\ \E i \in 1..2 : merged[i].notes = <<"a">> /\ merged[i].endSec = 60000

\* ------------------------------------------- claims on runWithConcurrency
\* C13  Pool index preservation: runWithConcurrency over N items returns
\* exactly N results where results[i] is the value the worker returned for
\* (items[i], i), for every i and every completion order; every index in
\* 0..N-1 is handed to the worker exactly once.
C13_IndexPreservation ==
  /\ \A i \in DOMAIN handed : handed[i] <= 1
  /\ poolPc = "done" =>
       /\ DOMAIN returned = 0..(Len(poolItems) - 1)
       /\ \A i \in 0..(Len(poolItems) - 1) :
            /\ returned[i] = [item |-> poolItems[i + 1], index |-> i]
            /\ handed[i] = 1

\* more items than pool workers, resolved out of index order
C13_Witness ==
  /\ poolPc = "done"
  /\ Len(poolItems) = 4
  /\ completed = <<2, 3, 0, 1>>

\* ------------------------------------------------------------ C15 .. C17
\* the JSON artifacts analyzeVideo writes
JsonArtifacts == {"behaviors_raw.json", "behaviors_validated.json", "behaviors_final.json"}

\* C15: Unit skips are never fatal. Whatever a detection or validation unit
\* ends in (SkipUnit or any other error), analyzeVideo never rejects because
\* of the unit; a detection segment that was skipped or failed contributes
\* the empty list, rawDetections is the concatenation of every segment's
\* result, and once the stages are over the JSON artifacts are written.
C15_UnitSkipsNeverFatal ==
  /\ raisedBy # "unit"
  /\ \A i \in DOMAIN detectOutcome :
       detectOutcome[i] \in {"skip", "error"} => detectionsBySegment[i] = <<>>
  /\ stage \in {"validate", "done", "raised"} =>
       rawDetections = flat(detectionsBySegment)
  /\ stage \in {"done", "raised"} => JsonArtifacts \subseteq artifacts

\* analyzeVideo returned although a detection unit and a validation unit
\* failed, with the detections of another segment kept
C15_Witness ==
  /\ stage = "done"
  /\ \E i, j \in DOMAIN detectOutcome :
       /\ detectOutcome[i] = "error"
       /\ detectOutcome[j] = "array"
       /\ detectionsBySegment[j] # <<>>
  /\ rawDetections # <<>>
  /\ \E k \in DOMAIN validateOutcome : validateOutcome[k] \in {"skip", "error"}

\* merged span i is marked skipped, counts as correct, and is in
\* validatedOnly (the content of behaviors_validated.json and the argument of
\* the second merge) with the bounds it had before validation
keptAsCorrect(i) ==
  LET entry == validatedEntries[i]
      item == mergedBeforeValidation[i]
  IN  /\ entry.skipped
      /\ entry.correct
      /\ entry.startSec = item.startSec
      /\ entry.endSec = item.endSec
      /\ \E j \in DOMAIN validatedOnly : validatedOnly[j] = entry

\* C16: Throttled validation keeps the detection. When the policy-wrapped
\* call of a validation unit raises SkipUnit, the merged span is marked
\* skipped: true, treated as correct, and appears in behaviors_validated.json
\* and in the input of the second merge with its pre-validation bounds.
C16_ThrottledValidationKeeps ==
  "behaviors_validated.json" \in artifacts =>
    \A i \in DOMAIN validateOutcome :
      validateOutcome[i] = "skip" => keptAsCorrect(i)

C16_Witness ==
  /\ "behaviors_validated.json" \in artifacts
  /\ \E i \in DOMAIN validateOutcome :
       /\ validateOutcome[i] = "skip"
       /\ \E j \in DOMAIN validatedOnly :
            /\ validatedOnly[j].skipReason = "validation_skipped_assumed_true"
            /\ validatedOnly[j].startSec = mergedBeforeValidation[i].startSec

\* C17: Invalid validation payload keeps the detection. When a validation
\* unit's response is still not an object after the strict-JSON retry, the
\* merged span is marked skipped: true, treated as correct, and retained in
\* the validated set and in the final set with its pre-validation bounds.
C17_InvalidPayloadKeeps ==
  "behaviors_final.json" \in artifacts =>
    \A i \in DOMAIN validateOutcome :
      validateOutcome[i] = "invalid" =>
        /\ keptAsCorrect(i)
        /\ \E k \in DOMAIN merged :
             /\ KeyOf(merged[k]) = KeyOf(mergedBeforeValidation[i])
             /\ merged[k].startSec <= mergedBeforeValidation[i].startSec
             /\ merged[k].endSec >= mergedBeforeValidation[i].endSec

\* ------------------------------------------------------------------- C21
\* the spans of xs with the given (behavior, modality) key, in order
ofKey(xs, key) == SelectSeq(xs, LAMBDA x : KeyOf(x) = key)

\* the note parts of the spans of xs
noteParts(xs) == UNION { { xs[i].notes[n] : n \in DOMAIN xs[i].notes } : i \in DOMAIN xs }

\* C21  Merge type-safety: every span in the output of mergeBehaviors is
\* built only from input items of exactly its behavior and modality: its
\* startSec, endSec and note parts come from items of its key, and the spans
\* of a key are what mergeBehaviors makes of the items of that key alone, so
\* items of another behavior or modality never contribute to it, however the
\* time ranges overlap.
C21_MergeTypeSafety ==
  purePc \in {"merged", "remerged"} =>
    /\ \A i \in DOMAIN merged :
         LET same == ofKey(items, KeyOf(merged[i]))
         IN  /\ \E k \in DOMAIN same : same[k].startSec = merged[i].startSec
             /\ \E k \in DOMAIN same : same[k].endSec = merged[i].endSec
             /\ noteParts(<<merged[i]>>) \subseteq noteParts(same)
    /\ \A key \in InputKeys :
         ofKey(merged, key) = mergeBehaviors(ofKey(items, key))

\* overlapping items of one behavior and two modalities, kept as two spans
C21_Witness ==
  /\ purePc = "merged"
  /\ Len(items) = 3
  /\ \E i, j \in DOMAIN items :
       /\ items[i].behavior = items[j].behavior
       /\ items[i].modality # items[j].modality
       /\ items[i].startSec <= items[j].startSec
       /\ items[j].startSec <= items[i].endSec
  /\ \E i, j \in DOMAIN merged :
       /\ merged[i].behavior = merged[j].behavior
       /\ merged[i].modality # merged[j].modality

\* ------------------------------------------------------------ C22 .. C25
\* P holds of every behavior in every artifact written so far
everyEmitted(P(_)) ==
  /\ "behaviors_raw.json" \in artifacts =>
       \A i \in DOMAIN rawDetections : P(rawDetections[i])
  /\ "behaviors_validated.json" \in artifacts =>
       \A i \in DOMAIN validatedOnly : P(validatedOnly[i])
  /\ "behaviors_final.json" \in artifacts =>
       \A i \in DOMAIN merged : P(merged[i])

\* C22  Time bounds of emitted behaviors: for every model response and every
\* duration, each behavior written to behaviors_raw.json,
\* behaviors_validated.json or behaviors_final.json satisfies
\* 0 <= startSec <= endSec <= duration.
C22_TimeBounds ==
  everyEmitted(LAMBDA b : 0 <= b.startSec /\ b.startSec <= b.endSec
                            /\ b.endSec <= durationSec)

\* C23  Minimum duration: every behavior in every emitted artifact has
\* endSec - startSec >= 0.8 s, up to the rounding step of 1 ms.
C23_MinimumDuration ==
  everyEmitted(LAMBDA b : b.endSec - b.startSec >= MIN_ACTION_DURATION_SECONDS - 10)

\* a detection shorter than 0.8 s was stretched, went through a skipped
\* validation and a refined one, and all three artifacts are written
C23_Witness ==
  /\ stage = "done"
  /\ \E i \in DOMAIN rawDetections :
       rawDetections[i].endSec - rawDetections[i].startSec = MIN_ACTION_DURATION_SECONDS
  /\ \E i \in DOMAIN validatedOnly : validatedOnly[i].skipped
  /\ \E i \in DOMAIN validatedOnly :
       /\ ~validatedOnly[i].skipped
       /\ validatedOnly[i].endSec - validatedOnly[i].startSec >= MIN_ACTION_DURATION_SECONDS
  /\ merged # <<>>

\* C24  Absolute time stays in the source segment: every raw detection made
\* for segment i has startSec and endSec inside
\* [segment_i.startSec, segment_i.endSec].
C24_AbsoluteTimeInSegment ==
  \A i \in DOMAIN detectionsBySegment :
    \A k \in DOMAIN detectionsBySegment[i] :
      LET b == detectionsBySegment[i][k]
      IN  /\ segments[i].startSec <= b.startSec
          /\ b.startSec <= segments[i].endSec
          /\ segments[i].startSec <= b.endSec
          /\ b.endSec <= segments[i].endSec

\* C25  Vocabulary closure: every behavior label in any emitted artifact is
\* one of the 14 labels of the closed vocabulary and its modality is visual
\* or audio.
C25_VocabularyClosure ==
  /\ Cardinality(BEHAVIORS) = 14
  /\ everyEmitted(LAMBDA b : b.behavior \in BEHAVIORS /\ b.modality \in {"visual", "audio"})

\* a response held a label outside the vocabulary and one with an unknown
\* modality next to valid items; the valid ones reached the final set
C25_Witness ==
  /\ stage = "done"
  /\ \E i \in DOMAIN detectOutcome :
       /\ detectOutcome[i] = "array"
       /\ Len(detectionsBySegment[i]) = 2
       /\ \E k \in 1..2 : detectionsBySegment[i][k].behavior = "screaming"
  /\ \E k \in DOMAIN merged : merged[k].behavior = "screaming"

\* ------------------------------------------------------------ C26, C27
\* C26  External edits are preserved: if an external writer changes
\* reviewNotes at any moment while a job is running, then after the job's
\* last write (Pending review or Failed) the record still holds the external
\* writer's value.
C26_ExternalEditsPreserved ==
  \A j \in Jobs :
    (/\ edited
     /\ pc[j] = "done"
     /\ written[j] # <<>>
     /\ Last(written[j]) \in {"Pending review", "Failed"})
      => sessions[recordPath[j]].reviewNotes = "edited"

\* C27  Temporary directory cleanup: once processVideoObject has created its
\* temporary directory, the directory is removed on every exit path.
C27_TmpRootRemoved ==
  \A j \in Jobs : pc[j] = "done" => tmpRoot[j] # "created"

\* ------------------------------------------------------------------- C28
\* C28  Bearer authentication: when a non-empty worker token is configured,
\* every POST /pubsub/storage-finalize request whose Authorization header is
\* not "Bearer <token>" is answered 401 and never reaches event parsing or
\* processVideoObject; when no token is configured no request is answered
\* 401; GET /healthz is answered 200 {ok: true} whatever the header.
C28_BearerAuthentication ==
  \A j \in Jobs :
    /\ (/\ workerToken # ""
        /\ method = "POST" /\ url = "/pubsub/storage-finalize"
        /\ authorization # <<"Bearer", workerToken>>)
         => \/ pc[j] = "arrived"
            \/ pc[j] = "done" /\ response[j] = [code |-> 401, reason |-> "Unauthorized."]
    /\ workerToken = "" => response[j].code # 401
    /\ (method = "GET" /\ url = "/healthz" /\ pc[j] = "done")
         => response[j] = [code |-> 200, reason |-> "ok: true"]

\* ------------------------------------------------------------ C29, C30
\* C29  Fatal subtitle burn: if the final subtitle burn-in fails, analyzeVideo
\* raises, the job starts no artifact upload, the session record it writes is
\* Failed with processingError holding the encoder message and with the
\* analysisJsonPath and processedVideoPath fields as they were read (none
\* for a session that had none), and when nothing else fails Failed is the
\* job's last write.
C29_FatalSubtitleBurn ==
  [][\A j \in Jobs :
       error'[j] = BurnError
         => /\ pendingUploads'[j] = {}
            /\ written'[j] # written[j]
                 => LET r == sessions'[recordPath[j]]
                    IN  /\ r.status = "Failed"
                        /\ r.processingError = BurnError
                        /\ r.analysisJsonPath = session[j].analysisJsonPath
                        /\ r.processedVideoPath = session[j].processedVideoPath
            /\ (pc'[j] = "done" /\ failures' = 1)
                 => /\ Last(written'[j]) = "Failed"
                    /\ response'[j] = [code |-> 500, reason |-> BurnError]]_vars

\* the burn failed for a session without artifact paths: it is Failed, holds
\* the encoder message and no path, and no artifact object exists
C29_Witness ==
  \E j \in Jobs :
    /\ pc[j] = "done"
    /\ error[j] = BurnError
    /\ sessions[recordPath[j]].status = "Failed"
    /\ sessions[recordPath[j]].processingError = BurnError
    /\ sessions[recordPath[j]].analysisJsonPath = NoPath
    /\ sessions[recordPath[j]].processedVideoPath = NoPath
    /\ objects = {}

\* job j returns { ok: true, ... } in this step
Succeeds(j) ==
  /\ response[j] = NoResponse
  /\ response'[j] = [code |-> 200, reason |-> "ok"]

\* the record of job j holds the output paths and the dominant category
HoldsOutputs(r, name) ==
  /\ r.analysisJsonPath = finalJsonDestination(name)
  /\ r.processedVideoPath = outputVideoDestination(name)
  /\ r.dominantCategory = Analysis.dominantCategory

ArrayResponses == {o.parsed : o \in {x \in DetectionOutcomes : x.kind = "array"}}

\* entry b of a segment's result was made from item of the response
madeFrom(b, item, segment) ==
  /\ b.behavior = lowerTrim(item.behavior)
  /\ b.startSec = Round3(item.startSec + segment.startSec)
  /\ b.notes = item.notes

\* C31  Inverted bounds are dropped: a detection item whose clip-relative
\* endSec is less than or equal to its startSec does not appear in the
\* detection result of its segment.
C31_InvertedBoundsDropped ==
  \A i \in DOMAIN detectionsBySegment :
    \A parsed \in ArrayResponses :
      (detectOutcome[i] = "array"
         /\ detectionsBySegment[i] = normalizeDetections(parsed, segments[i]))
        => \A n \in DOMAIN parsed :
             parsed[n].endSec <= parsed[n].startSec
               => \A k \in DOMAIN detectionsBySegment[i] :
                    ~madeFrom(detectionsBySegment[i][k], parsed[n], segments[i])

\* ------------------------------------------------------------------ C32
\* the clip given to the validator for a merged span of a video of length d
localStart(item) == Max(0, item.startSec - VALIDATION_MARGIN_SECONDS)
localEnd(item, d) == Min(d, item.endSec + VALIDATION_MARGIN_SECONDS)

\* unit i got a validation response with correct = true
refinedUnit(i) ==
  /\ validateOutcome[i] = "object"
  /\ validatedEntries[i].correct

\* C32  Validation refinement bounds: for a validation response with
\* correct = true, the emitted span's startSec and endSec both lie in the
\* margin-expanded clip [localStart, localEnd] and endSec >= startSec + 0.01.
C32_RefinementBounds ==
  \A i \in DOMAIN validatedEntries :
    refinedUnit(i)
      => LET item == mergedBeforeValidation[i]
             e == validatedEntries[i]
         IN  /\ localStart(item) <= e.startSec
             /\ e.startSec <= localEnd(item, durationSec)
             /\ localStart(item) <= e.endSec
             /\ e.endSec <= localEnd(item, durationSec)
             /\ e.endSec >= e.startSec + 100

\* ------------------------------------------------------------------ C33
\* waitForFileReady has returned or thrown
ReadyOver == stage \in {"detect", "raised"}

\* C33  File readiness: waitForFileReady returns only a file whose state is
\* ACTIVE; a file in a state other than PROCESSING or ACTIVE, or still
\* PROCESSING once the deadline has passed, makes it raise; detection never
\* starts on a file that is not ACTIVE, and the polling loop always ends.
C33_FileReadiness ==
  /\ [](stage = "detect" => fileState = "ACTIVE")
  /\ [](fileState \notin {"", "PROCESSING", "ACTIVE"} => stage = "raised")
  /\ []((fileState = "PROCESSING" /\ fileClock > fileDeadline)
          => stage \in {"get", "raised"})
  /\ [](stage = "sleep" => fileClock <= fileDeadline)
  /\ <>ReadyOver

\* the file was still PROCESSING at the first poll after the deadline
C33_Witness ==
  /\ stage = "raised"
  /\ raisedBy = "stayed PROCESSING"
  /\ fileState = "PROCESSING"
  /\ fileClock = fileDeadline + POLL_INTERVAL_MS

\* ------------------------------------------------------------------ C34
\* the validation stage has been entered: its units exist
ValidationIssued == stage = "validate" \/ validateOutcome # <<>>

\* burnSubtitles has been called
BurnStarted == "video_with_behaviors.mp4" \in artifacts \/ raisedBy = "burnSubtitles"

\* C34  Stage ordering: no validation request is issued before every
\* detection unit has finished and the first merge has run, and the subtitle
\* burn starts only after every validation unit has finished and
\* behaviors_final.json has been written.
C34_StageOrdering ==
  /\ (ValidationIssued \/ BurnStarted)
       => /\ \A i \in DOMAIN detectOutcome :
               detectOutcome[i] \notin {"pending", "fallback"}
          /\ rawDetections = flat(detectionsBySegment)
          /\ mergedBeforeValidation = MapSeq(mergeBehaviors(rawDetections), roundBounds)
          /\ DOMAIN validateOutcome = DOMAIN mergedBeforeValidation
  /\ BurnStarted
       => /\ \A i \in DOMAIN validateOutcome : validateOutcome[i] # "pending"
          /\ "behaviors_final.json" \in artifacts
          /\ merged = MapSeq(mergeBehaviors(validatedOnly), roundBounds)

\* a run over two segments and two merged spans whose burn has ended
C34_Witness ==
  /\ stage = "done"
  /\ Len(detectOutcome) = 2
  /\ Len(validateOutcome) = 2
  /\ "video_with_behaviors.mp4" \in artifacts

\* ------------------------------------------------------------------ C35
\* C35  Single strict-JSON retry: a detection unit whose first response is
\* not an array issues exactly one further policy-wrapped request, at
\* temperature 0 with the reminder appended; if that response is no array
\* either, the unit yields [] and no third request is made; a unit whose
\* first response is an array issues no further request.
C35_SingleStrictJsonRetry ==
  \A i \in DOMAIN detectCalls :
    LET c == detectCalls[i]
    IN  /\ Len(c) \in {1, 2}
        /\ c[1].temperature = TEMPERATURE /\ ~c[1].reminder
        /\ c[1].outcome = "nonArray" <=> Len(c) = 2
        /\ Len(c) = 2
             => /\ c[2].temperature = 0 /\ c[2].reminder
                /\ c[2].outcome = "nonArray"
                     => /\ detectOutcome[i] = "nonArray"
                        /\ detectionsBySegment[i] = <<>>

\* one unit gave up after its fallback, another got an array at once, and
\* the run went on to its end
C35_Witness ==
  /\ stage = "done"
  /\ \E i, j \in DOMAIN detectCalls :
       /\ Len(detectCalls[i]) = 2
       /\ detectCalls[i][2].outcome = "nonArray"
       /\ detectionsBySegment[i] = <<>>
       /\ Len(detectCalls[j]) = 1
       /\ detectCalls[j][1].outcome = "array"
       /\ detectionsBySegment[j] # <<>>

\* ------------------------------------------------------------------ C36
\* worker w is inside callWithPolicy / its call has returned or thrown
InCall(w) == wpc[w] \in {"ready", "loop", "blocked", "blockedTrigger", "inflight", "retrySleep"}
CallOver(w) == wpc[w] \in {"returned", "skipped"}

\* C36  Policy call termination: every callWithPolicy invocation ends by
\* returning a response or by raising SkipUnit, after at most 5 invocations
\* of its thunk (1 initial, at most 1 retry after a rate limit, at most 3
\* transient retries); rate-limit hits do not consume the transient retry
\* budget and transient retries do not consume the rate-limit strike.
C36_PolicyCallTermination ==
  /\ [](\A w \in Workers :
          /\ attempts[w] <= 5
          /\ rateLimitHitCount[w] <= 1
          /\ transientRetryCount[w] <= 3
          /\ attempts[w] <= 1 + rateLimitHitCount[w] + transientRetryCount[w])
  /\ [][\A w \in Workers :
         Caught(w)
           => /\ wpc'[w] \in {"blockedTrigger", "loop", "retrySleep", "skipped"}
              /\ RateLimited(caught'.error)
                   => transientRetryCount'[w] = transientRetryCount[w]
              /\ ~RateLimited(caught'.error)
                   => rateLimitHitCount'[w] = rateLimitHitCount[w]]_vars
  /\ \A w \in Workers : InCall(w) ~> CallOver(w)

\* a call that spent both budgets: five invocations, then SkipUnit
C36_Witness ==
  \E w \in Workers :
    /\ wpc[w] = "skipped"
    /\ attempts[w] = 5
    /\ rateLimitHitCount[w] = 1
    /\ transientRetryCount[w] = 3

\* ------------------------------------------------------------------ C37
\* the record holds the committed result of a job
Committed(r) ==
  /\ IsRecord(r)
  /\ r.status = "Pending review"
  /\ r.analysisJsonPath # NoPath
  /\ r.processedVideoPath # NoPath

\* C37  Committed state is stable under concurrent writers: once the record
\* holds status "Pending review" together with both artifact paths, no
\* later write sets status back to "Processing" or "Failed" or removes
\* analysisJsonPath / processedVideoPath.
C37_CommittedStable ==
  [][\A p \in DOMAIN sessions :
       Committed(sessions[p])
         => /\ IsRecord(sessions'[p])
            /\ sessions'[p].status \notin {"Processing", "Failed"}
            /\ sessions'[p].analysisJsonPath # NoPath
            /\ sessions'[p].processedVideoPath # NoPath]_vars

\* ------------------------------------------------------------------ C38
\* C38  No session stuck in Processing: every run of processVideoObject
\* that writes status "Processing" writes status "Pending review" or
\* "Failed" to that record before it returns or raises.
C38_NoStuckProcessing ==
  \A j \in Jobs :
    (pc[j] = "done" /\ written[j] # <<>>)
      => Last(written[j]) \in {"Pending review", "Failed"}

\* ------------------------------------------------------------------ C39
\* job j writes the Processing record in this step
WritesProcessing(j) ==
  /\ pc[j] = "writeProcessing" /\ pc'[j] # "writeProcessing"
  /\ failures' = failures

\* C39  Re-entry after failure: the gate suppresses a job only when status is
\* "Pending review" or "Reviewed" and both artifact paths are set; a
\* redelivered event for a session in any other state moves the session to
\* "Processing" with processingError cleared and runs the analyzer again
\* (when no external call of the job throws before the analyzer is called).
C39_ReentryAfterFailure ==
  /\ [][\A j \in Jobs :
          /\ ReadsRecord(j)
               => IF GateHolds(sessions[recordPath[j]])
                    THEN response'[j].reason = "already_processed"
                    ELSE /\ pc'[j] = "writeProcessing"
                         /\ response'[j] = NoResponse
          /\ WritesProcessing(j)
               => /\ sessions'[recordPath[j]].status = "Processing"
                  /\ sessions'[recordPath[j]].processingError = ""
                  /\ sessions'[recordPath[j]].processingStartedAt # 0]_vars
  /\ [](\A j \in Jobs :
          (pc[j] = "done" /\ written[j] # <<>> /\ failures = 0)
            => analyzerRuns[j] = 1)

\* a delivery for a session that had failed: the record is Processing
\* again, its error cleared, and the analyzer has been run
C39_Witness ==
  \E j \in Jobs :
    /\ session[j].status = "Failed"
    /\ session[j].processingError = "analyze"
    /\ sessions[recordPath[j]].status = "Processing"
    /\ sessions[recordPath[j]].processingError = ""
    /\ analyzerRuns[j] = 1
    /\ pc[j] = "upload"

\* ------------------------------------------------------------------ C40
\* output span s holds the interval of input item x, of the same key
covers(s, x) ==
  /\ KeyOf(s) = KeyOf(x)
  /\ s.startSec <= x.startSec
  /\ x.endSec <= s.endSec

\* C40  Merge coverage: each input item's interval is contained in exactly
\* one output span of mergeBehaviors with the same (behavior, modality);
\* every output span starts at the startSec of some input item and ends at
\* the endSec of some input item of that key; the output has no more spans
\* than the input and is ordered by non-decreasing startSec.
C40_MergeCoverage ==
  purePc \in {"merged", "remerged"}
    => /\ \A i \in DOMAIN items :
            Cardinality({k \in DOMAIN merged : covers(merged[k], items[i])}) = 1
       /\ \A k \in DOMAIN merged :
            /\ \E i \in DOMAIN items :
                 KeyOf(items[i]) = KeyOf(merged[k]) /\ items[i].startSec = merged[k].startSec
            /\ \E i \in DOMAIN items :
                 KeyOf(items[i]) = KeyOf(merged[k]) /\ items[i].endSec = merged[k].endSec
       /\ Len(merged) <= Len(items)
       /\ \A k \in 1..(Len(merged) - 1) : merged[k].startSec <= merged[k + 1].startSec

\* three items given out of order, two of them joined into a span that
\* starts with one and ends with the other
C40_Witness ==
  /\ purePc = "merged"
  /\ Len(items) = 3
  /\ Len(merged) = 2
  /\ items[1].startSec > items[2].startSec
  /\ \E k \in DOMAIN merged, i, j \in DOMAIN items :
       /\ i # j
       /\ covers(merged[k], items[i]) /\ covers(merged[k], items[j])
       /\ merged[k].startSec = items[i].startSec /\ merged[k].endSec = items[j].endSec
       /\ items[i].endSec < items[j].endSec

====
